---- MODULE Spec2Model ----
(***************************************************************************)
(* Secure Key Services (SKS) trusted application: the processing engine of *)
(* ta_services/secure_key_services/src/processing.c.                       *)
(*                                                                         *)
(* The state is the per-session processing state (state, proc_id,          *)
(* tee_op_handle, AE context), the object store with each object's         *)
(* transient key handle, and the provider-side sets of live operations and *)
(* transient objects.  There is one action per entry point.  `last` holds  *)
(* the description of the latest call: its arguments, its return code, the *)
(* session fields as they were when the call was made, and what the call   *)
(* did with the buffers it owns.                                           *)
(***************************************************************************)
EXTENDS Integers, FiniteSets, Sequences, TLC

VARIABLES processing, proc_id, tee_op_handle, ae_ctx, objects,
          tee_ops, tee_objs, user_session, panicked, last

vars == <<processing, proc_id, tee_op_handle, ae_ctx, objects,
          tee_ops, tee_objs, user_session, panicked, last>>

----------------------------------------------------------------------------
(* Bounds of the model *)

\* number of objects the store may hold
MaxObjects == 1

----------------------------------------------------------------------------
(* Identifiers *)

\* The entry points work on the one session their handle names and on the
\* object store; the model has one session and a handle that names none.
Sessions == {1}
SessionHandles == Sessions \cup {2}

ObjHandles == 1..MaxObjects
\* key handles a caller may pass: the possible objects and one beyond them
KeyHandles == 1..(MaxObjects + 1)

TEE_HANDLE_NULL == "TEE_HANDLE_NULL"
OpHandles == {"op1", "op2"}

SKS_UNDEFINED_ID == "SKS_UNDEFINED_ID"

PKCS11_SESSION_READY == "READY"
PKCS11_SESSION_ENCRYPTING == "ENCRYPTING"
PKCS11_SESSION_DECRYPTING == "DECRYPTING"
PKCS11_SESSION_SIGNING == "SIGNING"
PKCS11_SESSION_VERIFYING == "VERIFYING"

ProcessingStates == {PKCS11_SESSION_READY, PKCS11_SESSION_ENCRYPTING,
                     PKCS11_SESSION_DECRYPTING, PKCS11_SESSION_SIGNING,
                     PKCS11_SESSION_VERIFYING}

(* Mechanisms *)
CipherMechs == {"SKS_CKM_AES_ECB", "SKS_CKM_AES_CBC", "SKS_CKM_AES_CBC_PAD",
                "SKS_CKM_AES_CTS", "SKS_CKM_AES_CTR", "SKS_CKM_AES_CCM",
                "SKS_CKM_AES_GCM"}
AesMacMechs == {"SKS_CKM_AES_CMAC", "SKS_CKM_AES_CMAC_GENERAL",
                "SKS_CKM_AES_XCBC_MAC"}
HmacMechs == {"SKS_CKM_MD5_HMAC", "SKS_CKM_SHA_1_HMAC", "SKS_CKM_SHA224_HMAC",
              "SKS_CKM_SHA256_HMAC", "SKS_CKM_SHA384_HMAC",
              "SKS_CKM_SHA512_HMAC"}
MacMechs == AesMacMechs \cup HmacMechs
KeyGenMechs == {"SKS_CKM_AES_KEY_GEN", "SKS_CKM_GENERIC_SECRET_KEY_GEN"}
AeMechs == {"SKS_CKM_AES_CCM", "SKS_CKM_AES_GCM"}
AllMechs == CipherMechs \cup MacMechs \cup KeyGenMechs \cup {"SKS_CKM_UNKNOWN"}

\* mechanism ids the callers of the cipher and the sign/verify init pass
CipherCallMechs == {"SKS_CKM_AES_ECB", "SKS_CKM_AES_CBC", "SKS_CKM_AES_CBC_PAD",
                    "SKS_CKM_AES_CTR", "SKS_CKM_AES_GCM", "SKS_CKM_AES_CMAC",
                    "SKS_CKM_UNKNOWN"}
SignCallMechs == {"SKS_CKM_AES_CMAC", "SKS_CKM_SHA256_HMAC", "SKS_CKM_AES_ECB",
                  "SKS_CKM_UNKNOWN"}
\* the mechanisms whose parameter size entry_cipher_init looks at
SizedParamMechs == {"SKS_CKM_AES_ECB", "SKS_CKM_AES_CBC",
                    "SKS_CKM_AES_CBC_PAD", "SKS_CKM_AES_CTS"}

\* sizes of the mechanism parameter a caller passes
ParamSizes == {0, 8, 16}
\* sizes of the output buffer a caller passes; NoBuf is no buffer at all
NoBuf == 0 - 1
OutSizes == {0, 16}
InSizes == {16}
\* output sizes the provider may need
NeedSizes == {0, 16}

(* Key types, classes, functions *)
KeyTypes == {"SKS_CKK_AES", "SKS_CKK_GENERIC_SECRET", "SKS_CKK_MD5_HMAC",
             "SKS_CKK_SHA_1_HMAC", "SKS_CKK_SHA224_HMAC", "SKS_CKK_SHA256_HMAC",
             "SKS_CKK_SHA384_HMAC", "SKS_CKK_SHA512_HMAC", "SKS_CKK_EC",
             SKS_UNDEFINED_ID}
Functions == {"SKS_FUNCTION_ENCRYPT", "SKS_FUNCTION_DECRYPT",
              "SKS_FUNCTION_SIGN", "SKS_FUNCTION_VERIFY"}

(* Return codes *)
SKS_OK == "SKS_OK"
SKS_ERROR == "SKS_ERROR"
SKS_MEMORY == "SKS_MEMORY"
SKS_BAD_PARAM == "SKS_BAD_PARAM"
SKS_SHORT_BUFFER == "SKS_SHORT_BUFFER"
SKS_FAILED == "SKS_FAILED"
SKS_NOT_FOUND == "SKS_NOT_FOUND"
\* the call did not return: the trusted application panicked or faulted
PANIC == "PANIC"

----------------------------------------------------------------------------
(* The CRYPTO PROVIDER and the helpers of other files *)

\* sks_helpers.c: mapping of provider results to SKS return codes
tee2sks_error(res) ==
    CASE res = "TEE_SUCCESS" -> SKS_OK
      [] res = "TEE_ERROR_SHORT_BUFFER" -> SKS_SHORT_BUFFER
      [] res = "TEE_ERROR_OUT_OF_MEMORY" -> SKS_MEMORY
      [] res = "TEE_ERROR_BAD_PARAMETERS" -> SKS_BAD_PARAM
      [] res = "TEE_ERROR_MAC_INVALID" -> "SKS_CKR_SIGNATURE_INVALID"
      [] OTHER -> SKS_ERROR

\* results of a provider call that allocates or binds (no output buffer)
TEE_AllocResults == {"TEE_SUCCESS", "TEE_ERROR_OUT_OF_MEMORY"}
TEE_SetKeyResults == {"TEE_SUCCESS", "TEE_ERROR_GENERIC"}

\* A provider call that writes into (out, &out_size): it needs some size
\* `need`; with a smaller buffer it answers TEE_ERROR_SHORT_BUFFER and stores
\* the needed size, otherwise it succeeds and stores the size produced; it
\* may also fail, leaving the size as it was.
TEE_WithOutput(out_size) ==
    { [res |-> IF out_size < need THEN "TEE_ERROR_SHORT_BUFFER"
                                  ELSE "TEE_SUCCESS",
       out_size |-> need, need |-> need] : need \in NeedSizes }
    \cup { [res |-> "TEE_ERROR_GENERIC", out_size |-> out_size, need |-> NoBuf] }

\* TEE_MACCompareFinal takes the size by value: it reports no needed size
TEE_MACCompareFinal ==
    { [res |-> r, need |-> NoBuf] :
        r \in {"TEE_SUCCESS", "TEE_ERROR_MAC_INVALID", "TEE_ERROR_GENERIC"} }

\* the size of a TEE_Param memref, 0 when the parameter is absent
memref_size(p) == IF p = NoBuf THEN 0 ELSE p

----------------------------------------------------------------------------
(* The session fields and provider resources, as one value the steps of an *)
(* entry point transform.                                                  *)

\* released, op_frees and releases are the trace of the call being made: the
\* mechanism releases run, the number of TEE_FreeOperation calls and the
\* number of release_active_processing calls.
Cur == [processing |-> processing, proc_id |-> proc_id,
        tee_op_handle |-> tee_op_handle, ae_ctx |-> ae_ctx,
        objects |-> objects, tee_ops |-> tee_ops, tee_objs |-> tee_objs,
        released |-> <<>>, op_frees |-> 0, releases |-> 0]

\* pkcs11_token.c: the processing state test and set
check_processing_state(S, s, st) == S.processing[s] # st

set_processing_state(S, s, st) == [S EXCEPT !.processing[s] = st]

\* processing_ae.c: release of the CCM/GCM context (the decrypt scratch)
tee_release_ae_operation(S, s) == [S EXCEPT !.ae_ctx[s] = FALSE]

tee_release_ccm_operation(S, s) ==
    [tee_release_ae_operation(S, s) EXCEPT !.released = Append(@, "ccm")]

tee_release_gcm_operation(S, s) ==
    [tee_release_ae_operation(S, s) EXCEPT !.released = Append(@, "gcm")]

\* processing_symm.c: the counter mode keeps nothing outside the provider
\* operation
tee_release_ctr_operation(S, s) == [S EXCEPT !.released = Append(@, "ctr")]

TEE_FreeOperation(S, h) ==
    [S EXCEPT !.tee_ops = @ \ {h}, !.op_frees = @ + 1]

\* the switch of release_active_processing over the mechanism
release_mechanism(S, s) ==
    CASE S.proc_id[s] = "SKS_CKM_AES_CTR" -> tee_release_ctr_operation(S, s)
      [] S.proc_id[s] = "SKS_CKM_AES_GCM" -> tee_release_gcm_operation(S, s)
      [] S.proc_id[s] = "SKS_CKM_AES_CCM" -> tee_release_ccm_operation(S, s)
      [] OTHER -> S

\* a release that frees the operation but keeps its handle in the session
release_active_processing_keeps_handle(S, s) ==
    LET S1 == release_mechanism(S, s)
        S2 == [S1 EXCEPT !.proc_id[s] = SKS_UNDEFINED_ID,
                         !.releases = @ + 1]
        S3 == IF S2.tee_op_handle[s] # TEE_HANDLE_NULL
              THEN TEE_FreeOperation(S2, S2.tee_op_handle[s])
              ELSE S2
    IN  set_processing_state(S3, s, PKCS11_SESSION_READY)

\* a release that skips the switch over the mechanism
release_active_processing_no_switch(S, s) ==
    LET S2 == [S EXCEPT !.proc_id[s] = SKS_UNDEFINED_ID, !.releases = @ + 1]
        S3 == IF S2.tee_op_handle[s] # TEE_HANDLE_NULL
              THEN [TEE_FreeOperation(S2, S2.tee_op_handle[s])
                      EXCEPT !.tee_op_handle[s] = TEE_HANDLE_NULL]
              ELSE S2
    IN  set_processing_state(S3, s, PKCS11_SESSION_READY)

release_active_processing(S, s) ==
    LET S1 == release_mechanism(S, s)
        S2 == [S1 EXCEPT !.proc_id[s] = SKS_UNDEFINED_ID,
                         !.releases = @ + 1]
        S3 == IF S2.tee_op_handle[s] # TEE_HANDLE_NULL
              THEN [TEE_FreeOperation(S2, S2.tee_op_handle[s])
                      EXCEPT !.tee_op_handle[s] = TEE_HANDLE_NULL]
              ELSE S2
    IN  set_processing_state(S3, s, PKCS11_SESSION_READY)

----------------------------------------------------------------------------
(* The heap buffers of an entry point *)

\* A pointer variable of an entry point with the buffer it points to: ptr
\* tells that the variable is not NULL, allocs and frees count the
\* allocations of the buffer and the TEE_Free calls that reached it, content
\* is what the buffer holds and freed_with what it held when it was freed.
NullPtr == [ptr |-> FALSE, allocs |-> 0, frees |-> 0, content |-> "none",
            freed_with |-> "none"]

Allocated(content) ==
    [ptr |-> TRUE, allocs |-> 1, frees |-> 0, content |-> content,
     freed_with |-> "none"]

\* TEE_Free(NULL) does nothing; the variable keeps its value
TEE_Free(b) ==
    IF b.ptr THEN [b EXCEPT !.frees = @ + 1, !.freed_with = b.content] ELSE b

\* variable = NULL
SetNull(b) == [b EXCEPT !.ptr = FALSE]

\* TEE_GenerateRandom fills the buffer with the bytes of the key
TEE_GenerateRandom(b) == [b EXCEPT !.content = "key"]

\* the buffers of an entry point: the template, the attributes built from
\* it, the mechanism parameter and the value of a generated key
NoBufs == [template |-> NullPtr, head |-> NullPtr, proc_params |-> NullPtr,
           value |-> NullPtr]

----------------------------------------------------------------------------
(* The description of a call *)

NoSession == [state |-> "NONE", proc_id |-> SKS_UNDEFINED_ID,
              tee_op_handle |-> TEE_HANDLE_NULL]

PreOf(sh) == IF sh \in Sessions
             THEN [state |-> processing[sh], proc_id |-> proc_id[sh],
                   tee_op_handle |-> tee_op_handle[sh]]
             ELSE NoSession

\* op: the entry point; flag: its decrypt or sign argument; sh: the session
\* handle; pre: the session fields at the call; step: the place the call
\* returned from; out_size: the size left in the out parameter (NoBuf: no
\* out parameter); need: the size the provider asked for; freed: how many
\* times the call freed its mechanism parameter; null_session: the call
\* passed a NULL session to release_active_processing; handle: the object
\* handle written to the out buffer, 0 if none; nobj: the number of objects
\* in the store at the call; vlen_size, vlen: the size and the content of
\* attribute VALUE_LEN of the template of a generate call (NoBuf: none);
\* written: the number of bytes a cipher update or final put into the out
\* buffer of the caller; key: the handle of the object an init called
\* load_key on (0: none); key_alloc: what load_key told of its allocation;
\* released, op_frees, releases: the mechanism releases the call ran, the
\* number of its TEE_FreeOperation calls and of its
\* release_active_processing calls; bufs: the heap buffers of the call.
Call(op, flag, sh) ==
    [op |-> op, flag |-> flag, sh |-> sh, pre |-> PreOf(sh), rv |-> SKS_OK,
     step |-> "done", mech |-> SKS_UNDEFINED_ID, psize |-> 0, handle |-> 0,
     out_size |-> NoBuf,
     need |-> NoBuf, in |-> NoBuf, out |-> NoBuf, fed |-> 0, allocated |-> 0, freed |-> 0,
     null_session |-> FALSE, nobj |-> Cardinality(DOMAIN objects),
     vlen_size |-> NoBuf, vlen |-> 0, written |-> 0, key |-> 0,
     key_alloc |-> "none", released |-> <<>>, op_frees |-> 0,
     releases |-> 0, bufs |-> NoBufs]

\* the call with the buffers it allocated and freed; allocated and freed
\* count the template and the mechanism parameter
WithBufs(l, b) ==
    [l EXCEPT !.bufs = b,
              !.allocated = b.template.allocs + b.proc_params.allocs,
              !.freed = b.template.frees + b.proc_params.frees]

Commit(S, l) ==
    /\ processing' = S.processing
    /\ proc_id' = S.proc_id
    /\ tee_op_handle' = S.tee_op_handle
    /\ ae_ctx' = S.ae_ctx
    /\ objects' = S.objects
    /\ tee_ops' = S.tee_ops
    /\ tee_objs' = S.tee_objs
    /\ user_session' = user_session
    /\ panicked' = (l.rv = PANIC)
    /\ last' = [l EXCEPT !.released = S.released, !.op_frees = S.op_frees,
                         !.releases = S.releases]

\* a return that touched nothing
Return(l, rv, step) == Commit(Cur, [l EXCEPT !.rv = rv, !.step = step])

----------------------------------------------------------------------------
(* Arguments common to the entry points *)

\* the control parameter: absent, too short for the fields read from it,
\* or well formed
CtrlShapes == {"null", "short", "ok"}

\* a data parameter: absent or a buffer of some size
InParams == {NoBuf} \cup InSizes
OutParams == {NoBuf} \cup OutSizes

\* serializer.c: reading the session handle from the control parameter
serialargs_get(ctrl) == IF ctrl = "short" THEN SKS_BAD_PARAM ELSE SKS_OK

\* pkcs11_token.c: sks_handle2session, FALSE when the handle names no session
sks_handle2session(sh) == sh \in Sessions

\* the state of a cipher call that takes every call for an encrypt call
CipherState_always_encrypting(decrypt) == PKCS11_SESSION_ENCRYPTING

CipherState(decrypt) == IF decrypt THEN PKCS11_SESSION_DECRYPTING
                                   ELSE PKCS11_SESSION_ENCRYPTING

\* the state test of a sign/verify call that takes every call for a sign call
SignVerifyState_always_signing(sign) == PKCS11_SESSION_SIGNING

SignVerifyState(sign) == IF sign THEN PKCS11_SESSION_SIGNING
                                 ELSE PKCS11_SESSION_VERIFYING

----------------------------------------------------------------------------
(* entry_cipher_update *)

\* processing_ae.c: tee_ae_decrypt_update keeps the plaintext in the session
\* context; it has no output parameter
tee_ae_decrypt_update == {SKS_OK, SKS_MEMORY, SKS_ERROR}

\* the bytes a provider call that answered r put into its output buffer
TEE_Written(r) == IF r.res = "TEE_SUCCESS" THEN r.out_size ELSE 0

\* a provider step that sends every mechanism and direction to the provider
\* with the out buffer of the caller
cipher_update_step_always_out(S, s, decrypt, in, out) ==
    { [rv |-> tee2sks_error(r.res), out_size |-> r.out_size,
       need |-> r.need, written |-> TEE_Written(r)] :
         r \in TEE_WithOutput(memref_size(out)) }

\* the provider step of entry_cipher_update: the return code, out_size and
\* the bytes written to the out buffer
cipher_update_step(S, s, decrypt, in, out) ==
    IF S.proc_id[s] \in AeMechs
    THEN IF decrypt
         THEN { [rv |-> r, out_size |-> 0, need |-> NoBuf, written |-> 0] :
                  r \in tee_ae_decrypt_update }
         ELSE { [rv |-> tee2sks_error(r.res), out_size |-> r.out_size,
                 need |-> r.need, written |-> TEE_Written(r)] :
                  r \in TEE_WithOutput(memref_size(out)) }
    ELSE { [rv |-> tee2sks_error(r.res), out_size |-> r.out_size,
            need |-> r.need, written |-> TEE_Written(r)] :
             r \in TEE_WithOutput(memref_size(out)) }

\* a short buffer answer without an out parameter is a bad parameter
no_out_short_buffer(rv, out) ==
    IF out = NoBuf /\ rv = SKS_SHORT_BUFFER THEN SKS_BAD_PARAM ELSE rv

\* an end of entry_cipher_update that never releases
cipher_update_end_never(S, s, rv) == S

\* the end of entry_cipher_update: release unless OK or SHORT_BUFFER
cipher_update_end(S, s, rv) ==
    IF rv # SKS_OK /\ rv # SKS_SHORT_BUFFER
    THEN release_active_processing(S, s) ELSE S

cipher_update_out(rv, out, out_size) ==
    IF rv # SKS_OK /\ rv # SKS_SHORT_BUFFER THEN out
    ELSE IF out # NoBuf THEN out_size ELSE out

entry_cipher_update(sh, decrypt) ==
    /\ ~panicked
    /\ \E ctrl \in CtrlShapes :
        LET l == Call("cipher_update", decrypt, sh) IN
        IF ctrl = "null" THEN Return(l, SKS_BAD_PARAM, "ctrl")
        ELSE IF serialargs_get(ctrl) # SKS_OK
        THEN Return(l, serialargs_get(ctrl), "ctrl")
        ELSE IF ~sks_handle2session(sh)
        THEN Return(l, "SKS_CKR_SESSION_HANDLE_INVALID", "session")
        ELSE IF check_processing_state(Cur, sh, CipherState(decrypt))
        THEN Return(l, "SKS_CKR_OPERATION_NOT_INITIALIZED", "state")
        ELSE \E in \in InParams, out \in OutParams :
             \E r \in cipher_update_step(Cur, sh, decrypt, in, out) :
                LET rv == no_out_short_buffer(r.rv, out) IN
                Commit(cipher_update_end(Cur, sh, rv),
                       [l EXCEPT !.rv = rv, !.step = "provider", !.in = in, !.out = out,
                                 !.need = r.need, !.written = r.written,
                                 !.out_size =
                                     cipher_update_out(rv, out, r.out_size)])

----------------------------------------------------------------------------
(* entry_cipher_final *)

\* processing_ae.c: tee_ae_encrypt_final and tee_ae_decrypt_final write the
\* tag or the kept plaintext into (out, &out_size) and return an SKS code
tee_ae_final(decrypt, out_size) ==
    { [rv |-> tee2sks_error(r.res), out_size |-> r.out_size, need |-> r.need,
       written |-> TEE_Written(r)] :
        r \in TEE_WithOutput(out_size) }
    \cup (IF decrypt
          THEN { [rv |-> "SKS_CKR_SIGNATURE_INVALID", out_size |-> out_size,
                  need |-> NoBuf, written |-> 0] }
          ELSE {})

\* the provider step of entry_cipher_final; `fed` is the number of input
\* bytes handed to the provider
cipher_final_step(S, s, decrypt, in, out) ==
    IF S.proc_id[s] \in AeMechs
    THEN IF memref_size(in) # 0
         THEN { [rv |-> SKS_BAD_PARAM, out_size |-> memref_size(out),
                 need |-> NoBuf, fed |-> 0, written |-> 0] }
         ELSE { [rv |-> r.rv, out_size |-> r.out_size, need |-> r.need,
                 fed |-> 0, written |-> r.written] :
                  r \in tee_ae_final(decrypt, memref_size(out)) }
    ELSE { [rv |-> tee2sks_error(r.res), out_size |-> r.out_size,
            need |-> r.need, fed |-> memref_size(in),
            written |-> TEE_Written(r)] :
             r \in TEE_WithOutput(memref_size(out)) }

\* an end of entry_cipher_final that releases on a short buffer too
cipher_final_end_always(S, s, rv) == release_active_processing(S, s)

\* only a short buffer error can leave the operation active
cipher_final_end(S, s, rv) ==
    IF rv # SKS_SHORT_BUFFER THEN release_active_processing(S, s) ELSE S

cipher_final_out(rv, out, out_size) ==
    IF out # NoBuf /\ (rv = SKS_OK \/ rv = SKS_SHORT_BUFFER)
    THEN out_size ELSE out

entry_cipher_final(sh, decrypt) ==
    /\ ~panicked
    /\ \E ctrl \in CtrlShapes :
        LET l == Call("cipher_final", decrypt, sh) IN
        IF ctrl = "null" THEN Return(l, SKS_BAD_PARAM, "ctrl")
        ELSE IF serialargs_get(ctrl) # SKS_OK
        THEN Return(l, serialargs_get(ctrl), "ctrl")
        ELSE IF ~sks_handle2session(sh)
        THEN Return(l, "SKS_CKR_SESSION_HANDLE_INVALID", "session")
        ELSE IF check_processing_state(Cur, sh, CipherState(decrypt))
        THEN Return(l, "SKS_CKR_OPERATION_NOT_INITIALIZED", "state")
        ELSE \E in \in InParams, out \in OutParams :
             \E r \in cipher_final_step(Cur, sh, decrypt, in, out) :
                LET rv == no_out_short_buffer(r.rv, out) IN
                Commit(cipher_final_end(Cur, sh, rv),
                       [l EXCEPT !.rv = rv, !.step = "provider", !.in = in, !.out = out,
                                 !.need = r.need, !.fed = r.fed,
                                 !.written = r.written,
                                 !.out_size =
                                     cipher_final_out(rv, out, r.out_size)])

----------------------------------------------------------------------------
(* entry_signverify_update *)

\* the body of entry_signverify_update once the state matched
signverify_update_step(S, s, in, out) ==
    IF in = NoBuf \/ out # NoBuf THEN SKS_BAD_PARAM
    ELSE IF S.proc_id[s] \in MacMechs THEN SKS_OK
    ELSE "SKS_CKR_MECHANISM_INVALID"

\* an end of entry_signverify_update that never releases
signverify_update_end_never(S, s, rv) == S

signverify_update_end(S, s, rv) ==
    IF rv # SKS_OK THEN release_active_processing(S, s) ELSE S

entry_signverify_update(sh, sign) ==
    /\ ~panicked
    /\ \E ctrl \in CtrlShapes :
        LET l == Call("signverify_update", sign, sh) IN
        IF ctrl = "null" THEN Return(l, SKS_BAD_PARAM, "ctrl")
        ELSE IF serialargs_get(ctrl) # SKS_OK
        THEN Return(l, serialargs_get(ctrl), "ctrl")
        ELSE IF ~sks_handle2session(sh)
        THEN Return(l, "SKS_CKR_SESSION_HANDLE_INVALID", "session")
        ELSE IF check_processing_state(Cur, sh, SignVerifyState(sign))
        THEN Return(l, "SKS_CKR_OPERATION_NOT_INITIALIZED", "state")
        ELSE \E in \in InParams, out \in OutParams :
                LET rv == signverify_update_step(Cur, sh, in, out) IN
                Commit(signverify_update_end(Cur, sh, rv),
                       [l EXCEPT !.rv = rv, !.in = in, !.out = out,
                                 !.out_size = out,
                                 !.step = IF in = NoBuf \/ out # NoBuf
                                          THEN "params" ELSE "provider"])

----------------------------------------------------------------------------
(* entry_signverify_final *)

\* the body of entry_signverify_final once the state matched
signverify_final_step(S, s, sign, in, out) ==
    IF in # NoBuf \/ out = NoBuf
    THEN { [rv |-> SKS_BAD_PARAM, out_size |-> memref_size(out),
            need |-> NoBuf] }
    ELSE IF S.proc_id[s] \in MacMechs
    THEN IF sign
         THEN { [rv |-> tee2sks_error(r.res), out_size |-> r.out_size,
                 need |-> r.need] : r \in TEE_WithOutput(memref_size(out)) }
         ELSE { [rv |-> tee2sks_error(r.res), out_size |-> memref_size(out),
                 need |-> r.need] : r \in TEE_MACCompareFinal }
    ELSE { [rv |-> "SKS_CKR_MECHANISM_INVALID", out_size |-> memref_size(out),
            need |-> NoBuf] }

\* an end of entry_signverify_final that releases on success alone
signverify_final_end_ok_only(S, s, rv) ==
    IF rv = SKS_OK THEN release_active_processing(S, s) ELSE S

signverify_final_end(S, s, rv) ==
    IF rv # SKS_SHORT_BUFFER THEN release_active_processing(S, s) ELSE S

signverify_final_out(sign, rv, out, out_size) ==
    IF sign /\ (rv = SKS_OK \/ rv = SKS_SHORT_BUFFER) THEN out_size ELSE out

entry_signverify_final(sh, sign) ==
    /\ ~panicked
    /\ \E ctrl \in CtrlShapes :
        LET l == Call("signverify_final", sign, sh) IN
        IF ctrl = "null" THEN Return(l, SKS_BAD_PARAM, "ctrl")
        ELSE IF serialargs_get(ctrl) # SKS_OK
        THEN Return(l, serialargs_get(ctrl), "ctrl")
        ELSE IF ~sks_handle2session(sh)
        THEN Return(l, "SKS_CKR_SESSION_HANDLE_INVALID", "session")
        ELSE IF check_processing_state(Cur, sh, SignVerifyState(sign))
        THEN Return(l, "SKS_CKR_OPERATION_NOT_INITIALIZED", "state")
        ELSE \E in \in InParams, out \in OutParams :
             \E r \in signverify_final_step(Cur, sh, sign, in, out) :
                Commit(signverify_final_end(Cur, sh, r.rv),
                       [l EXCEPT !.rv = r.rv, !.in = in, !.out = out,
                                 !.need = r.need,
                                 !.step = IF in # NoBuf \/ out = NoBuf
                                          THEN "params" ELSE "provider",
                                 !.out_size = signverify_final_out(
                                                 sign, r.rv, out, r.out_size)])

----------------------------------------------------------------------------
(* Objects and the policy gate *)

\* sks_handle2object: the object a key handle names in the session, if any
sks_handle2object(S, kh, s) ==
    kh \in DOMAIN S.objects

\* the usage attribute a function needs on the parent key
UsageOf(function) ==
    CASE function = "SKS_FUNCTION_ENCRYPT" -> "SKS_CKA_ENCRYPT"
      [] function = "SKS_FUNCTION_DECRYPT" -> "SKS_CKA_DECRYPT"
      [] function = "SKS_FUNCTION_SIGN" -> "SKS_CKA_SIGN"
      [] function = "SKS_FUNCTION_VERIFY" -> "SKS_CKA_VERIFY"

\* the key types of the mechanism table
MechKeyTypes(mech) ==
    CASE mech \in CipherMechs \cup AesMacMechs -> {"SKS_CKK_AES"}
      [] mech = "SKS_CKM_MD5_HMAC" ->
            {"SKS_CKK_GENERIC_SECRET", "SKS_CKK_MD5_HMAC"}
      [] mech = "SKS_CKM_SHA_1_HMAC" ->
            {"SKS_CKK_GENERIC_SECRET", "SKS_CKK_SHA_1_HMAC"}
      [] mech = "SKS_CKM_SHA224_HMAC" ->
            {"SKS_CKK_GENERIC_SECRET", "SKS_CKK_SHA224_HMAC"}
      [] mech = "SKS_CKM_SHA256_HMAC" ->
            {"SKS_CKK_GENERIC_SECRET", "SKS_CKK_SHA256_HMAC"}
      [] mech = "SKS_CKM_SHA384_HMAC" ->
            {"SKS_CKK_GENERIC_SECRET", "SKS_CKK_SHA384_HMAC"}
      [] mech = "SKS_CKM_SHA512_HMAC" ->
            {"SKS_CKK_GENERIC_SECRET", "SKS_CKK_SHA512_HMAC"}
      [] OTHER -> {}

\* pkcs11_attributes.c: the parent key must carry the usage attribute of the
\* function and a key type of the mechanism; for a mechanism outside the
\* table the gate may let the request through or refuse it
check_parent_attrs_against_processing(mech, function, obj) ==
    IF UsageOf(function) \notin obj.usage
    THEN {"SKS_CKR_KEY_FUNCTION_NOT_PERMITTED"}
    ELSE IF mech \in CipherMechs \cup MacMechs
    THEN IF obj.key_type \in MechKeyTypes(mech)
         THEN {SKS_OK} ELSE {"SKS_CKR_KEY_TYPE_INCONSISTENT"}
    ELSE {SKS_OK, "SKS_CKR_MECHANISM_INVALID"}

\* pkcs11_token.c: the session is either a read/write session with the user
\* logged in or a read-only public session; no entry point of this file
\* changes that
SessionUserLoggedIn(s) == user_session
SessionReadWrite(s) == user_session

\* pkcs11_attributes.c: a private parent key needs the user logged in
check_parent_attrs_against_token(s, obj) ==
    IF obj.private /\ ~SessionUserLoggedIn(s)
    THEN "SKS_CKR_USER_NOT_LOGGED_IN" ELSE SKS_OK

----------------------------------------------------------------------------
(* tee_operarion_params: provider algorithm, mode and key size *)

Selected(algo, mode, size) ==
    [rv |-> SKS_OK, algo |-> algo, mode |-> mode, size |-> size]
Refused(rv) == [rv |-> rv, algo |-> "-", mode |-> "-", size |-> 0]

HmacAlgo(mech) ==
    CASE mech = "SKS_CKM_MD5_HMAC" -> "TEE_ALG_HMAC_MD5"
      [] mech = "SKS_CKM_SHA_1_HMAC" -> "TEE_ALG_HMAC_SHA1"
      [] mech = "SKS_CKM_SHA224_HMAC" -> "TEE_ALG_HMAC_SHA224"
      [] mech = "SKS_CKM_SHA256_HMAC" -> "TEE_ALG_HMAC_SHA256"
      [] mech = "SKS_CKM_SHA384_HMAC" -> "TEE_ALG_HMAC_SHA384"
      [] mech = "SKS_CKM_SHA512_HMAC" -> "TEE_ALG_HMAC_SHA512"

\* a switch whose every case compares with the key type of the first case
HmacKeyType_first_case(mech) == "SKS_CKK_MD5_HMAC"

HmacKeyType(mech) ==
    CASE mech = "SKS_CKM_MD5_HMAC" -> "SKS_CKK_MD5_HMAC"
      [] mech = "SKS_CKM_SHA_1_HMAC" -> "SKS_CKK_SHA_1_HMAC"
      [] mech = "SKS_CKM_SHA224_HMAC" -> "SKS_CKK_SHA224_HMAC"
      [] mech = "SKS_CKM_SHA256_HMAC" -> "SKS_CKK_SHA256_HMAC"
      [] mech = "SKS_CKM_SHA384_HMAC" -> "SKS_CKK_SHA384_HMAC"
      [] mech = "SKS_CKM_SHA512_HMAC" -> "SKS_CKK_SHA512_HMAC"

\* the switch of tee_operarion_params over key type, function and mechanism
tee_operarion_select(mech, key_type, value_size, function) ==
    IF key_type = "SKS_CKK_AES"
    THEN IF function \in {"SKS_FUNCTION_ENCRYPT", "SKS_FUNCTION_DECRYPT"}
         THEN LET mode == IF function = "SKS_FUNCTION_DECRYPT"
                          THEN "TEE_MODE_DECRYPT" ELSE "TEE_MODE_ENCRYPT"
                  size == value_size * 8
              IN CASE mech = "SKS_CKM_AES_ECB" ->
                        Selected("TEE_ALG_AES_ECB_NOPAD", mode, size)
                   [] mech = "SKS_CKM_AES_CBC" ->
                        Selected("TEE_ALG_AES_CBC_NOPAD", mode, size)
                   [] mech = "SKS_CKM_AES_CTR" ->
                        Selected("TEE_ALG_AES_CTR", mode, size)
                   [] mech = "SKS_CKM_AES_CTS" ->
                        Selected("TEE_ALG_AES_CTS", mode, size)
                   [] mech = "SKS_CKM_AES_CCM" ->
                        Selected("TEE_ALG_AES_CCM", mode, size)
                   [] mech = "SKS_CKM_AES_GCM" ->
                        Selected("TEE_ALG_AES_GCM", mode, size)
                   [] OTHER -> Refused("SKS_CKR_ATTRIBUTE_TYPE_INVALID")
         ELSE IF function \in {"SKS_FUNCTION_SIGN", "SKS_FUNCTION_VERIFY"}
         THEN CASE mech \in {"SKS_CKM_AES_CMAC", "SKS_CKM_AES_CMAC_GENERAL"} ->
                        Selected("TEE_ALG_AES_CMAC", "TEE_MODE_MAC",
                                 value_size * 8)
                [] mech = "SKS_CKM_AES_XCBC_MAC" ->
                        Selected("TEE_ALG_AES_CBC_MAC_NOPAD", "TEE_MODE_MAC",
                                 value_size * 8)
                [] OTHER -> Refused("SKS_CKR_ATTRIBUTE_TYPE_INVALID")
         ELSE Refused(SKS_FAILED)
    ELSE IF key_type \in {"SKS_CKK_GENERIC_SECRET", "SKS_CKK_MD5_HMAC",
                          "SKS_CKK_SHA_1_HMAC", "SKS_CKK_SHA224_HMAC",
                          "SKS_CKK_SHA256_HMAC", "SKS_CKK_SHA384_HMAC",
                          "SKS_CKK_SHA512_HMAC"}
    THEN IF function \in {"SKS_FUNCTION_SIGN", "SKS_FUNCTION_VERIFY"}
         THEN IF mech \in HmacMechs
              THEN IF key_type # "SKS_CKK_GENERIC_SECRET"
                      /\ key_type # HmacKeyType(mech)
                   THEN Refused("SKS_CKR_ATTRIBUTE_TYPE_INVALID")
                   ELSE Selected(HmacAlgo(mech), "TEE_MODE_MAC",
                                 value_size * 8)
              ELSE Refused("SKS_CKR_ATTRIBUTE_TYPE_INVALID")
         ELSE Refused(SKS_FAILED)
    ELSE Refused(SKS_FAILED)

\* TEE_AllocateOperation: a handle no live operation uses
TEE_AllocateOperation(S) ==
    LET free == OpHandles \ S.tee_ops IN
    { [res |-> "TEE_ERROR_OUT_OF_MEMORY", handle |-> TEE_HANDLE_NULL] }
    \cup (IF free = {} THEN {}
          ELSE { [res |-> "TEE_SUCCESS", handle |-> CHOOSE h \in free : TRUE] })

\* the outcomes [rv, S, sel, step] of tee_operarion_params; step tells the
\* place of the return: the VALUE lookup, the switch, the fatal check of
\* the operation handle, or the allocation
tee_operarion_params(S, s, mech, obj, function) ==
    IF obj.value_size = NoBuf
    THEN { [rv |-> PANIC, S |-> S, sel |-> Refused(PANIC), step |-> "value"] }
    ELSE IF obj.key_type = SKS_UNDEFINED_ID
    THEN { [rv |-> SKS_ERROR, S |-> S, sel |-> Refused(SKS_ERROR),
            step |-> "select"] }
    ELSE LET sel == tee_operarion_select(mech, obj.key_type, obj.value_size,
                                         function) IN
         IF sel.rv # SKS_OK
         THEN { [rv |-> sel.rv, S |-> S, sel |-> sel, step |-> "select"] }
         ELSE IF S.tee_op_handle[s] # TEE_HANDLE_NULL
         THEN { [rv |-> PANIC, S |-> S, sel |-> sel, step |-> "op_exists"] }
         ELSE { [rv |-> tee2sks_error(a.res),
                 S |-> IF a.res = "TEE_SUCCESS"
                       THEN [S EXCEPT !.tee_op_handle[s] = a.handle,
                                      !.tee_ops = @ \cup {a.handle}]
                       ELSE S,
                 sel |-> sel, step |-> "alloc_op"] :
                 a \in TEE_AllocateOperation(S) }

----------------------------------------------------------------------------
(* load_key: the transient provider object of a key *)

\* Convert SKS_CKK_xxx into the provider object type
get_tee_object_info(key_type) ==
    CASE key_type = "SKS_CKK_AES" ->
            [rv |-> SKS_OK, type |-> "TEE_TYPE_AES"]
      [] key_type = "SKS_CKK_GENERIC_SECRET" ->
            [rv |-> SKS_OK, type |-> "TEE_TYPE_GENERIC_SECRET"]
      [] key_type = "SKS_CKK_MD5_HMAC" ->
            [rv |-> SKS_OK, type |-> "TEE_TYPE_HMAC_MD5"]
      [] key_type = "SKS_CKK_SHA_1_HMAC" ->
            [rv |-> SKS_OK, type |-> "TEE_TYPE_HMAC_SHA1"]
      [] key_type = "SKS_CKK_SHA224_HMAC" ->
            [rv |-> SKS_OK, type |-> "TEE_TYPE_HMAC_SHA224"]
      [] key_type = "SKS_CKK_SHA256_HMAC" ->
            [rv |-> SKS_OK, type |-> "TEE_TYPE_HMAC_SHA256"]
      [] key_type = "SKS_CKK_SHA384_HMAC" ->
            [rv |-> SKS_OK, type |-> "TEE_TYPE_HMAC_SHA384"]
      [] key_type = "SKS_CKK_SHA512_HMAC" ->
            [rv |-> SKS_OK, type |-> "TEE_TYPE_HMAC_SHA512"]
      [] OTHER -> [rv |-> "SKS_CKR_ATTRIBUTE_TYPE_INVALID", type |-> "-"]

\* the handle of the transient object of an object of the store
TransientKey == "transient_key"

\* what load_key returns when TEE_AllocateTransientObject failed with `res`,
\* `rv` being the code get_tee_object_info returned
load_key_alloc_failed(rv, res) == rv

\* a load_key that takes no key for loaded
load_key_loaded_never(obj) == FALSE

\* key already loaded, we have a handle
load_key_loaded(obj) == obj.key_handle # TEE_HANDLE_NULL

\* the outcomes [rv, S, alloc] of load_key on the object of handle kh; alloc
\* tells what became of TEE_AllocateTransientObject: not called ("none"),
\* failed, succeeded with the object freed again, or succeeded with the
\* object kept as the key handle
load_key(S, kh) ==
    LET obj == S.objects[kh]
        info == get_tee_object_info(obj.key_type)
    IN
    IF load_key_loaded(obj)
    THEN { [rv |-> SKS_OK, S |-> S, alloc |-> "none"] }
    ELSE IF info.rv # SKS_OK
    THEN { [rv |-> info.rv, S |-> S, alloc |-> "none"] }
    ELSE IF obj.value_size = NoBuf
    THEN { [rv |-> PANIC, S |-> S, alloc |-> "none"] }
    ELSE    \* TEE_AllocateTransientObject fails
            { [rv |-> load_key_alloc_failed(info.rv, res), S |-> S,
               alloc |-> "failed"] :
                res \in TEE_AllocResults \ {"TEE_SUCCESS"} }
       \cup \* TEE_PopulateTransientObject fails: the object is freed again
            { [rv |-> tee2sks_error(res), S |-> S, alloc |-> "freed"] :
                res \in {"TEE_ERROR_GENERIC"} }
       \cup \* the key is loaded
            { [rv |-> info.rv,
               S |-> [S EXCEPT !.objects[kh].key_handle = TransientKey,
                               !.tee_objs = @ \cup {kh}],
               alloc |-> "kept"] }

\* TEE_SetOperationKey; keyed tells whether the operation now holds a key
TEE_SetOperationKey(key_handle) ==
    { [res |-> r, keyed |-> (r = "TEE_SUCCESS" /\ key_handle # TEE_HANDLE_NULL)] :
        r \in TEE_SetKeyResults }

\* TEE_CipherInit, TEE_AEInit and TEE_MACInit panic on an operation that
\* holds no key
TEE_Init(keyed) == IF keyed THEN SKS_OK ELSE PANIC

----------------------------------------------------------------------------
(* entry_cipher_init *)

\* processing_ae.c, processing_symm.c: tee_init_ctr_operation,
\* tee_init_ccm_operation and tee_init_gcm_operation parse the parameter
\* structure and start the provider operation
tee_init_mode_operation(keyed) ==
    {TEE_Init(keyed), "SKS_CKR_MECHANISM_PARAM_INVALID", SKS_BAD_PARAM,
     SKS_MEMORY}

\* a switch without the case of AES_CBC
cipher_init_default_no_cbc(mech) ==
    mech \notin {"SKS_CKM_AES_ECB", "SKS_CKM_AES_CBC_PAD", "SKS_CKM_AES_CTS",
                 "SKS_CKM_AES_CTR", "SKS_CKM_AES_CCM", "SKS_CKM_AES_GCM"}

\* the mechanism takes the default branch of the switch, which panics
cipher_init_default(mech) ==
    mech \notin {"SKS_CKM_AES_ECB", "SKS_CKM_AES_CBC", "SKS_CKM_AES_CBC_PAD",
                 "SKS_CKM_AES_CTS", "SKS_CKM_AES_CTR", "SKS_CKM_AES_CCM",
                 "SKS_CKM_AES_GCM"}

\* session->proc_id left as it is
init_proc_id_unset(mech) == SKS_UNDEFINED_ID

\* session->proc_id = proc_params->id
init_proc_id(mech) == mech

\* the mechanism specific initialisation of entry_cipher_init
cipher_init_mechanism(mech, psize, keyed) ==
    IF cipher_init_default(mech) THEN {PANIC} ELSE
    CASE mech = "SKS_CKM_AES_ECB" ->
            IF psize # 0 THEN {"SKS_CKR_MECHANISM_PARAM_INVALID"}
            ELSE {TEE_Init(keyed)}
      [] mech \in {"SKS_CKM_AES_CBC", "SKS_CKM_AES_CBC_PAD",
                   "SKS_CKM_AES_CTS"} ->
            IF psize # 16 THEN {"SKS_CKR_MECHANISM_PARAM_INVALID"}
            ELSE {TEE_Init(keyed)}
      [] mech \in {"SKS_CKM_AES_CTR", "SKS_CKM_AES_CCM", "SKS_CKM_AES_GCM"} ->
            tee_init_mode_operation(keyed)
      [] OTHER -> {PANIC}

\* the class of key entry_cipher_init loads
cipher_init_class_ok(obj) == obj.class = "SKS_CKO_SECRET_KEY"

\* Outcomes [rv, S, step, key, key_alloc] of entry_cipher_init from the
\* provisional state switch to the label bail (excluded); key is the handle
\* of the object load_key was called on (0: not called) and key_alloc what
\* load_key told of its allocation.
cipher_init_body(S0, s, kh, mech, psize, decrypt) ==
    LET function == IF decrypt THEN "SKS_FUNCTION_DECRYPT"
                               ELSE "SKS_FUNCTION_ENCRYPT"
        S1 == set_processing_state(S0, s, CipherState(decrypt))
        OutK(rv, S, step, alloc) ==
            [rv |-> rv, S |-> S, step |-> step, key |-> kh,
             key_alloc |-> alloc]
        Out(rv, S, step) ==
            [rv |-> rv, S |-> S, step |-> step, key |-> 0,
             key_alloc |-> "none"]
    IN
    IF ~sks_handle2object(S1, kh, s)
    THEN { Out("SKS_CKR_KEY_HANDLE_INVALID", S1, "key") }
    ELSE
    LET obj == S1.objects[kh]
        gate == check_parent_attrs_against_processing(mech, function, obj)
        tok == check_parent_attrs_against_token(s, obj)
    IN
      { Out(g, S1, "policy") : g \in gate \ {SKS_OK} }
      \cup
      (IF SKS_OK \notin gate THEN {}
       ELSE IF tok # SKS_OK THEN { Out(tok, S1, "token") }
       ELSE UNION {
         IF p.rv # SKS_OK THEN { Out(p.rv, p.S, p.step) }
         ELSE IF ~cipher_init_class_ok(obj)
         THEN { Out(SKS_FAILED, p.S, "class") }
         ELSE UNION {
           IF k.rv # SKS_OK THEN { OutK(k.rv, k.S, "load_key", k.alloc) }
           ELSE UNION {
             IF sk.res # "TEE_SUCCESS"
             THEN { OutK(tee2sks_error(sk.res), k.S, "set_key", k.alloc) }
             ELSE { IF m = SKS_OK
                    THEN OutK(SKS_OK,
                              [k.S EXCEPT !.proc_id[s] = init_proc_id(mech),
                                          !.ae_ctx[s] = (mech \in AeMechs)],
                              "done", k.alloc)
                    ELSE OutK(m, k.S,
                              IF cipher_init_default(mech)
                              THEN "mechanism_default" ELSE "mechanism",
                              k.alloc)
                    : m \in cipher_init_mechanism(mech, psize, sk.keyed) }
             : sk \in TEE_SetOperationKey(k.S.objects[kh].key_handle) }
           : k \in load_key(p.S, kh) }
         : p \in tee_operarion_params(S1, s, mech, obj, function) })

\* the arguments of an init call: well formed, or no control parameter, an
\* unexpected data parameter, a control parameter too short for the fields,
\* or no memory for the copy of the mechanism parameter
InitArgs == {"ok", "no_ctrl", "with_in", "with_out", "short", "nomem"}

\* the code an init returns before it looked at the session, SKS_OK if none
init_args_rv(args) ==
    CASE args \in {"no_ctrl", "with_in", "with_out"} -> SKS_BAD_PARAM
      [] args = "short" -> SKS_BAD_PARAM
      [] args = "nomem" -> SKS_MEMORY
      [] OTHER -> SKS_OK

\* The mechanism parameter of an init that got past its allocation: label
\* bail frees it; a call that does not return leaves it.
init_buffers(rv) ==
    [NoBufs EXCEPT !.proc_params = IF rv = PANIC THEN Allocated("data")
                                   ELSE TEE_Free(Allocated("data"))]

\* a label bail that forgets the release
cipher_init_bail_releases_never(rv, has_session) == FALSE

\* label bail of entry_cipher_init: whether release_active_processing is
\* called, given the return code and whether a session was found
cipher_init_bail_releases(rv, has_session) == rv # SKS_OK

\* label bail with a session at hand
cipher_init_bail(S, s, rv) ==
    IF cipher_init_bail_releases(rv, TRUE)
    THEN release_active_processing(S, s) ELSE S

\* Label bail without a session.  release_active_processing(NULL) reads and
\* writes fields through a NULL pointer: the trusted application faults, or
\* the accesses go unnoticed and the call returns.
BailWithoutSession(l, rv, releases) ==
    IF releases
    THEN \E fault \in BOOLEAN :
            Commit(Cur, WithBufs([l EXCEPT !.rv = IF fault THEN PANIC ELSE rv,
                                           !.step = "session",
                                           !.null_session = TRUE],
                                 init_buffers(IF fault THEN PANIC ELSE rv)))
    ELSE Commit(Cur, WithBufs([l EXCEPT !.rv = rv, !.step = "session"],
                              init_buffers(rv)))

entry_cipher_init(sh, decrypt) ==
    /\ ~panicked
    /\ \E args \in InitArgs :
        LET l == Call("cipher_init", decrypt, sh) IN
        IF init_args_rv(args) # SKS_OK
        THEN Return(l, init_args_rv(args), "ctrl")
        ELSE IF ~sks_handle2session(sh)
        THEN BailWithoutSession(l, "SKS_CKR_SESSION_HANDLE_INVALID",
                cipher_init_bail_releases("SKS_CKR_SESSION_HANDLE_INVALID",
                                          FALSE))
        ELSE IF check_processing_state(Cur, sh, PKCS11_SESSION_READY)
        THEN Commit(cipher_init_bail(Cur, sh, "SKS_CKR_OPERATION_ACTIVE"),
                    WithBufs([l EXCEPT !.rv = "SKS_CKR_OPERATION_ACTIVE",
                                       !.step = "state"],
                             init_buffers("SKS_CKR_OPERATION_ACTIVE")))
        ELSE \E kh \in KeyHandles, mech \in CipherCallMechs :
             \E psize \in IF mech \in SizedParamMechs THEN ParamSizes ELSE {0} :
             \E o \in cipher_init_body(Cur, sh, kh, mech, psize, decrypt) :
                IF o.rv = PANIC
                THEN Commit(o.S, WithBufs([l EXCEPT !.rv = PANIC,
                                                    !.step = o.step,
                                                    !.mech = mech,
                                                    !.psize = psize,
                                                    !.key = o.key,
                                                    !.key_alloc = o.key_alloc],
                                          init_buffers(PANIC)))
                ELSE Commit(cipher_init_bail(o.S, sh, o.rv),
                            WithBufs([l EXCEPT !.rv = o.rv, !.step = o.step,
                                               !.mech = mech, !.psize = psize,
                                               !.key = o.key,
                                               !.key_alloc = o.key_alloc],
                                     init_buffers(o.rv)))

----------------------------------------------------------------------------
(* entry_signverify_init *)

\* Outcomes [rv, S, step, key, key_alloc] of entry_signverify_init from the
\* provisional state switch to the label bail (excluded).
signverify_init_body(S0, s, kh, mech, sign) ==
    LET function == IF sign THEN "SKS_FUNCTION_SIGN"
                            ELSE "SKS_FUNCTION_VERIFY"
        S1 == set_processing_state(S0, s, SignVerifyState(sign))
        OutK(rv, S, step, alloc) ==
            [rv |-> rv, S |-> S, step |-> step, key |-> kh,
             key_alloc |-> alloc]
        Out(rv, S, step) ==
            [rv |-> rv, S |-> S, step |-> step, key |-> 0,
             key_alloc |-> "none"]
    IN
    IF ~sks_handle2object(S1, kh, s)
    THEN { Out("SKS_CKR_KEY_HANDLE_INVALID", S1, "key") }
    ELSE
    LET obj == S1.objects[kh]
        gate == check_parent_attrs_against_processing(mech, function, obj)
        tok == check_parent_attrs_against_token(s, obj)
    IN
      { Out(g, S1, "policy") : g \in gate \ {SKS_OK} }
      \cup
      (IF SKS_OK \notin gate THEN {}
       ELSE IF tok # SKS_OK THEN { Out(tok, S1, "token") }
       ELSE UNION {
         IF p.rv # SKS_OK THEN { Out(p.rv, p.S, p.step) }
         ELSE IF mech \notin MacMechs
         THEN { Out("SKS_CKR_MECHANISM_INVALID", p.S, "class") }
         ELSE UNION {
           IF k.rv # SKS_OK THEN { OutK(k.rv, k.S, "load_key", k.alloc) }
           ELSE UNION {
             IF sk.res # "TEE_SUCCESS"
             THEN { OutK(tee2sks_error(sk.res), k.S, "set_key", k.alloc) }
             ELSE IF TEE_Init(sk.keyed) = SKS_OK
             THEN { OutK(SKS_OK,
                         [k.S EXCEPT !.proc_id[s] = init_proc_id(mech)],
                         "done", k.alloc) }
             ELSE { OutK(TEE_Init(sk.keyed), k.S, "mechanism", k.alloc) }
             : sk \in TEE_SetOperationKey(k.S.objects[kh].key_handle) }
           : k \in load_key(p.S, kh) }
         : p \in tee_operarion_params(S1, s, mech, obj, function) })

\* label bail of entry_signverify_init
signverify_init_bail_releases(rv, has_session) == rv # SKS_OK /\ has_session

signverify_init_bail(S, s, rv) ==
    IF signverify_init_bail_releases(rv, TRUE)
    THEN release_active_processing(S, s) ELSE S

entry_signverify_init(sh, sign) ==
    /\ ~panicked
    /\ \E args \in InitArgs :
        LET l == Call("signverify_init", sign, sh) IN
        IF init_args_rv(args) # SKS_OK
        THEN Return(l, init_args_rv(args), "ctrl")
        ELSE IF ~sks_handle2session(sh)
        THEN BailWithoutSession(l, "SKS_CKR_SESSION_HANDLE_INVALID",
                signverify_init_bail_releases(
                    "SKS_CKR_SESSION_HANDLE_INVALID", FALSE))
        ELSE IF check_processing_state(Cur, sh, PKCS11_SESSION_READY)
        THEN Commit(signverify_init_bail(Cur, sh, "SKS_CKR_OPERATION_ACTIVE"),
                    WithBufs([l EXCEPT !.rv = "SKS_CKR_OPERATION_ACTIVE",
                                       !.step = "state"],
                             init_buffers("SKS_CKR_OPERATION_ACTIVE")))
        ELSE \E kh \in KeyHandles, mech \in SignCallMechs :
             \E o \in signverify_init_body(Cur, sh, kh, mech, sign) :
                IF o.rv = PANIC
                THEN Commit(o.S, WithBufs([l EXCEPT !.rv = PANIC,
                                                    !.step = o.step,
                                                    !.mech = mech,
                                                    !.key = o.key,
                                                    !.key_alloc = o.key_alloc],
                                          init_buffers(PANIC)))
                ELSE Commit(signverify_init_bail(o.S, sh, o.rv),
                            WithBufs([l EXCEPT !.rv = o.rv, !.step = o.step,
                                               !.mech = mech, !.key = o.key,
                                               !.key_alloc = o.key_alloc],
                                     init_buffers(o.rv)))

----------------------------------------------------------------------------
(* Templates and object creation *)

AllUsage == {"SKS_CKA_ENCRYPT", "SKS_CKA_DECRYPT", "SKS_CKA_SIGN",
             "SKS_CKA_VERIFY"}

Template(class, key_type, usage, value_size, vl_size, vl, private, token) ==
    [class |-> class, key_type |-> key_type, usage |-> usage,
     value_size |-> value_size, value_len_size |-> vl_size,
     value_len |-> vl, private |-> private, token |-> token]

\* the templates callers pass: an AES key with every usage; a private token
\* AES key that may only decrypt and verify; an AES key without VALUE but
\* with a 4-byte VALUE_LEN of 16; the same with a 2-byte VALUE_LEN; the same
\* with no VALUE_LEN at all; a generic secret of 32 bytes; a generic secret
\* without VALUE but with a 4-byte VALUE_LEN of 32
Templates ==
    { Template("SKS_CKO_SECRET_KEY", "SKS_CKK_AES", AllUsage, 16, NoBuf, 0,
               FALSE, FALSE),
      Template("SKS_CKO_SECRET_KEY", "SKS_CKK_AES",
               {"SKS_CKA_DECRYPT", "SKS_CKA_VERIFY"}, 16, NoBuf, 0, TRUE, TRUE),
      Template("SKS_CKO_SECRET_KEY", "SKS_CKK_AES", AllUsage, NoBuf, 4, 16,
               FALSE, FALSE),
      Template("SKS_CKO_SECRET_KEY", "SKS_CKK_AES", AllUsage, NoBuf, 2, 16,
               FALSE, FALSE),
      Template("SKS_CKO_SECRET_KEY", "SKS_CKK_AES", AllUsage, NoBuf, NoBuf, 0,
               FALSE, FALSE),
      Template("SKS_CKO_SECRET_KEY", "SKS_CKK_GENERIC_SECRET", AllUsage, 32,
               NoBuf, 0, FALSE, FALSE),
      Template("SKS_CKO_SECRET_KEY", "SKS_CKK_GENERIC_SECRET", AllUsage, NoBuf,
               4, 32, FALSE, FALSE) }

\* pkcs11_attributes.c: the sanitized attributes of a template, or a refusal;
\* a template for key generation may not carry VALUE
create_attributes_from_template(template, function) ==
    { [rv |-> SKS_MEMORY, head |-> template] }
    \cup
    (IF function = "SKS_FUNCTION_GENERATE" /\ template.value_size # NoBuf
     THEN { [rv |-> "SKS_CKR_TEMPLATE_INCONSISTENT", head |-> template] }
     ELSE { [rv |-> SKS_OK, head |-> template] })

\* pkcs11_attributes.c: the created object against the mechanism
check_created_attrs_against_processing(mech, head) ==
    CASE mech = "SKS_PROCESSING_IMPORT" -> {SKS_OK}
      [] mech = "SKS_CKM_AES_KEY_GEN" ->
            IF head.class = "SKS_CKO_SECRET_KEY" /\ head.key_type = "SKS_CKK_AES"
            THEN {SKS_OK} ELSE {"SKS_CKR_TEMPLATE_INCONSISTENT"}
      [] mech = "SKS_CKM_GENERIC_SECRET_KEY_GEN" ->
            IF head.class = "SKS_CKO_SECRET_KEY"
               /\ head.key_type = "SKS_CKK_GENERIC_SECRET"
            THEN {SKS_OK} ELSE {"SKS_CKR_TEMPLATE_INCONSISTENT"}
      [] OTHER -> {SKS_OK, "SKS_CKR_MECHANISM_INVALID"}

\* pkcs11_attributes.c: the created object against the token state
check_created_attrs_against_token(s, head) ==
    IF head.token /\ ~SessionReadWrite(s) THEN "SKS_CKR_SESSION_READ_ONLY"
    ELSE IF head.private /\ ~SessionUserLoggedIn(s)
    THEN "SKS_CKR_USER_NOT_LOGGED_IN"
    ELSE SKS_OK

\* a lookup that finds every attribute
get_attribute_ptr_value_found(head) == SKS_OK

\* attributes.c: get_attribute_ptr(head, SKS_CKA_VALUE, NULL, NULL)
get_attribute_ptr_value(head) ==
    IF head.value_size = NoBuf THEN SKS_NOT_FOUND ELSE SKS_OK

\* object.c: create_object registers the attributes under an unused handle
create_object(S, s, head) ==
    LET unused == ObjHandles \ DOMAIN S.objects IN
    { [rv |-> SKS_MEMORY, S |-> S, handle |-> 0] }
    \cup
    (IF unused = {} THEN {}
     ELSE LET h == CHOOSE x \in unused : \A y \in unused : x <= y IN
          { [rv |-> SKS_OK, handle |-> h,
             S |-> [S EXCEPT !.objects = @ @@ (h :>
                       [class |-> head.class, key_type |-> head.key_type,
                        usage |-> head.usage, value_size |-> head.value_size,
                        private |-> head.private, token |-> head.token,
                        key_handle |-> TEE_HANDLE_NULL])]] })

\* the arguments of an import or generate call
CreateArgs == {"ok", "no_ctrl", "with_in", "no_out", "small_out",
               "with_in_small_out", "unaligned", "short", "nomem"}

\* sizeof(uint32_t), the size of a handle in the out buffer
HandleSize == 4

\* the code returned before the session is looked at, SKS_OK if none
create_args_rv(args) ==
    CASE args \in {"no_ctrl", "with_in", "no_out", "with_in_small_out"} ->
            SKS_BAD_PARAM
      [] args = "small_out" -> SKS_SHORT_BUFFER
      [] args = "unaligned" -> SKS_BAD_PARAM
      [] args = "short" -> SKS_BAD_PARAM
      [] args = "nomem" -> SKS_MEMORY
      [] OTHER -> SKS_OK

\* the in and out parameters the caller gave: no buffer, or its size
create_args_in(args) ==
    IF args \in {"with_in", "with_in_small_out"} THEN 16 ELSE NoBuf

create_args_given_out(args) ==
    CASE args = "no_out" -> NoBuf
      [] args \in {"small_out", "with_in_small_out"} -> 2
      [] OTHER -> 16

\* a too small out buffer whose size is left as the caller gave it
create_args_out_untouched(args) == create_args_given_out(args)

\* the out size after a return before the session is looked at
create_args_out(args) ==
    CASE args = "small_out" -> HandleSize
      [] OTHER -> create_args_given_out(args)

\* an import or generate that does not look at the processing state
create_state_rv_ignored(S, s) == SKS_OK

\* import and generate need a session that is READY
create_state_rv(S, s) ==
    IF check_processing_state(S, s, PKCS11_SESSION_READY)
    THEN "SKS_CKR_OPERATION_ACTIVE" ELSE SKS_OK

----------------------------------------------------------------------------
(* entry_import_object *)

\* the template and the attributes of an import whose local variable head is
\* not reset once the store owns the attributes
import_buffers_head_kept(step) ==
    LET t0 == Allocated("data") IN
    IF step \in {"session", "state"}
    THEN [NoBufs EXCEPT !.template = TEE_Free(t0), !.head = TEE_Free(NullPtr)]
    ELSE LET t1 == SetNull(TEE_Free(t0))
             h0 == IF step = "template" THEN NullPtr ELSE Allocated("data")
         IN [NoBufs EXCEPT !.template = TEE_Free(t1), !.head = TEE_Free(h0)]

\* The template and the attributes of an import that got past the
\* allocation of the template, by the place the call returned from: the
\* template is freed once the attributes are built from it, head is reset
\* when create_object succeeded, and label bail frees both variables.
import_buffers(step) ==
    LET t0 == Allocated("data") IN
    IF step \in {"session", "state"}
    THEN [NoBufs EXCEPT !.template = TEE_Free(t0), !.head = TEE_Free(NullPtr)]
    ELSE LET t1 == SetNull(TEE_Free(t0))
             h0 == IF step = "template" THEN NullPtr ELSE Allocated("data")
             h1 == IF step = "done" THEN SetNull(h0) ELSE h0
         IN [NoBufs EXCEPT !.template = TEE_Free(t1), !.head = TEE_Free(h1)]

\* Outcomes [rv, S, step, handle] of entry_import_object on a READY session
import_body(S, s, template) ==
    LET Out(rv, S1, step, h) ==
            [rv |-> rv, S |-> S1, step |-> step, handle |-> h]
    IN UNION {
         IF c.rv # SKS_OK THEN { Out(c.rv, S, "template", 0) }
         ELSE
         { Out(g, S, "policy", 0) :
             g \in check_created_attrs_against_processing(
                       "SKS_PROCESSING_IMPORT", c.head) \ {SKS_OK} }
         \cup
         (IF check_created_attrs_against_token(s, c.head) # SKS_OK
          THEN { Out(check_created_attrs_against_token(s, c.head), S,
                     "token", 0) }
          ELSE IF get_attribute_ptr_value(c.head) # SKS_OK
          THEN { Out(get_attribute_ptr_value(c.head), S, "value", 0) }
          ELSE { Out(o.rv, o.S, IF o.rv = SKS_OK THEN "done" ELSE "create",
                     o.handle) : o \in create_object(S, s, c.head) })
         : c \in create_attributes_from_template(template,
                                                 "SKS_FUNCTION_IMPORT") }

entry_import_object(sh) ==
    /\ ~panicked
    /\ \E args \in CreateArgs :
        LET l == [Call("import", FALSE, sh)
                    EXCEPT !.in = create_args_in(args),
                           !.out = create_args_given_out(args)] IN
        IF create_args_rv(args) # SKS_OK
        THEN Commit(Cur, [l EXCEPT !.rv = create_args_rv(args),
                                   !.step = "ctrl",
                                   !.out_size = create_args_out(args)])
        ELSE IF ~sks_handle2session(sh)
        THEN Commit(Cur, WithBufs(
                        [l EXCEPT !.rv = "SKS_CKR_SESSION_HANDLE_INVALID",
                                  !.step = "session", !.out_size = 16],
                        import_buffers("session")))
        ELSE IF create_state_rv(Cur, sh) # SKS_OK
        THEN Commit(Cur, WithBufs(
                        [l EXCEPT !.rv = create_state_rv(Cur, sh),
                                  !.step = "state", !.out_size = 16],
                        import_buffers("state")))
        ELSE \E template \in Templates :
             \E o \in import_body(Cur, sh, template) :
                Commit(o.S, WithBufs(
                        [l EXCEPT !.rv = o.rv, !.step = o.step,
                                  !.handle = o.handle,
                                  !.out_size = IF o.rv = SKS_OK
                                               THEN HandleSize ELSE 16],
                        import_buffers(o.step)))

----------------------------------------------------------------------------
(* entry_generate_object *)

\* a generate_random_key_value that looks for VALUE_LEN but not at its size
generate_random_key_value_any_size(head) ==
    LET value == TEE_Free(TEE_GenerateRandom(Allocated("none"))) IN
    IF head.value_len_size = NoBuf
    THEN { [rv |-> "SKS_CKR_ATTRIBUTE_VALUE_INVALID", head |-> head,
            value |-> NullPtr] }
    ELSE { [rv |-> SKS_MEMORY, head |-> head, value |-> NullPtr],
           [rv |-> SKS_MEMORY, head |-> head, value |-> value],
           [rv |-> SKS_OK,
            head |-> [head EXCEPT !.value_size = head.value_len],
            value |-> value] }

\* Outcomes [rv, head, value] of generate_random_key_value: VALUE_LEN must
\* be there with the size of a uint32_t; TEE_Malloc may fail; the buffer is
\* filled with random bytes, add_attribute copies it into attribute VALUE or
\* fails, and the buffer is freed as it is in both cases
generate_random_key_value(head) ==
    LET value == TEE_Free(TEE_GenerateRandom(Allocated("none"))) IN
    IF head.value_len_size # HandleSize
    THEN { [rv |-> "SKS_CKR_ATTRIBUTE_VALUE_INVALID", head |-> head,
            value |-> NullPtr] }
    ELSE { [rv |-> SKS_MEMORY, head |-> head, value |-> NullPtr],
           [rv |-> SKS_MEMORY, head |-> head, value |-> value],
           [rv |-> SKS_OK,
            head |-> [head EXCEPT !.value_size = head.value_len],
            value |-> value] }

\* the mechanism switch of entry_generate_object
generate_value(mech, head) ==
    IF mech \in {"SKS_CKM_GENERIC_SECRET_KEY_GEN", "SKS_CKM_AES_KEY_GEN"}
    THEN generate_random_key_value(head)
    ELSE { [rv |-> "SKS_CKR_MECHANISM_INVALID", head |-> head,
            value |-> NullPtr] }

\* the buffers of a generate whose local variable template is not reset
\* after the template was freed
generate_buffers_template_kept(step, value) ==
    LET p0 == Allocated("data")
        t0 == Allocated("data")
    IN
    IF step = "template_alloc"
    THEN [NoBufs EXCEPT !.proc_params = TEE_Free(p0)]
    ELSE IF step \in {"session", "state", "template"}
    THEN [NoBufs EXCEPT !.proc_params = TEE_Free(p0),
                        !.template = TEE_Free(t0)]
    ELSE LET t1 == TEE_Free(t0)
             h0 == Allocated("data")
             p1 == IF step \in {"create", "done"}
                   THEN SetNull(TEE_Free(p0)) ELSE p0
             h1 == IF step = "done" THEN SetNull(h0) ELSE h0
         IN [proc_params |-> TEE_Free(p1), template |-> TEE_Free(t1),
             head |-> TEE_Free(h1), value |-> value]

\* The buffers of a generate that got past the allocation of the mechanism
\* parameter, by the place the call returned from: the template is freed
\* once the attributes are built from it, the mechanism parameter once the
\* value is generated, head is reset when create_object succeeded, and label
\* bail frees the three variables.
generate_buffers(step, value) ==
    LET p0 == Allocated("data")
        t0 == Allocated("data")
    IN
    IF step = "template_alloc"
    THEN [NoBufs EXCEPT !.proc_params = TEE_Free(p0)]
    ELSE IF step \in {"session", "state", "template"}
    THEN [NoBufs EXCEPT !.proc_params = TEE_Free(p0),
                        !.template = TEE_Free(t0)]
    ELSE LET t1 == SetNull(TEE_Free(t0))
             h0 == Allocated("data")
             p1 == IF step \in {"create", "done"}
                   THEN SetNull(TEE_Free(p0)) ELSE p0
             h1 == IF step = "done" THEN SetNull(h0) ELSE h0
         IN [proc_params |-> TEE_Free(p1), template |-> TEE_Free(t1),
             head |-> TEE_Free(h1), value |-> value]

\* Outcomes [rv, S, step, handle, value] of entry_generate_object on a READY
\* session
generate_body(S, s, mech, template) ==
    LET OutV(rv, S1, step, h, value) ==
            [rv |-> rv, S |-> S1, step |-> step, handle |-> h,
             value |-> value]
        Out(rv, S1, step, h) == OutV(rv, S1, step, h, NullPtr)
    IN UNION {
         IF c.rv # SKS_OK THEN { Out(c.rv, S, "template", 0) }
         ELSE
         { Out(g, S, "policy", 0) :
             g \in check_created_attrs_against_processing(mech, c.head)
                   \ {SKS_OK} }
         \cup
         (IF SKS_OK \notin check_created_attrs_against_processing(mech, c.head)
          THEN {}
          ELSE IF check_created_attrs_against_token(s, c.head) # SKS_OK
          THEN { Out(check_created_attrs_against_token(s, c.head), S,
                     "token", 0) }
          ELSE UNION {
                 IF v.rv # SKS_OK
                 THEN { OutV(v.rv, S, "value", 0, v.value) }
                 ELSE { OutV(o.rv, o.S,
                             IF o.rv = SKS_OK THEN "done" ELSE "create",
                             o.handle, v.value) :
                          o \in create_object(S, s, v.head) }
                 : v \in generate_value(mech, c.head) })
         : c \in create_attributes_from_template(template,
                                                 "SKS_FUNCTION_GENERATE") }

\* mechanism ids the callers of generate pass
GenerateMechs == {"SKS_CKM_AES_KEY_GEN", "SKS_CKM_GENERIC_SECRET_KEY_GEN",
                  "SKS_CKM_AES_ECB"}

entry_generate_object(sh) ==
    /\ ~panicked
    /\ \E args \in CreateArgs :
        LET l == [Call("generate", FALSE, sh)
                    EXCEPT !.in = create_args_in(args),
                           !.out = create_args_given_out(args)] IN
        IF create_args_rv(args) # SKS_OK
        THEN \/ Commit(Cur, [l EXCEPT !.rv = create_args_rv(args),
                                      !.step = "ctrl",
                                      !.out_size = create_args_out(args)])
             \/ \* no memory for the template: the mechanism parameter is
                \* there already
                /\ args = "nomem"
                /\ Commit(Cur, WithBufs(
                        [l EXCEPT !.rv = create_args_rv(args),
                                  !.step = "ctrl",
                                  !.out_size = create_args_out(args)],
                        generate_buffers("template_alloc", NullPtr)))
        ELSE IF ~sks_handle2session(sh)
        THEN Commit(Cur, WithBufs(
                        [l EXCEPT !.rv = "SKS_CKR_SESSION_HANDLE_INVALID",
                                  !.step = "session", !.out_size = 16],
                        generate_buffers("session", NullPtr)))
        ELSE IF create_state_rv(Cur, sh) # SKS_OK
        THEN Commit(Cur, WithBufs(
                        [l EXCEPT !.rv = create_state_rv(Cur, sh),
                                  !.step = "state", !.out_size = 16],
                        generate_buffers("state", NullPtr)))
        ELSE \E template \in Templates, mech \in GenerateMechs :
             \E o \in generate_body(Cur, sh, mech, template) :
                Commit(o.S, WithBufs(
                        [l EXCEPT !.rv = o.rv, !.step = o.step,
                                  !.mech = mech, !.handle = o.handle,
                                  !.vlen_size = template.value_len_size,
                                  !.vlen = template.value_len,
                                  !.out_size = IF o.rv = SKS_OK
                                               THEN HandleSize ELSE 16],
                        generate_buffers(o.step, o.value)))

----------------------------------------------------------------------------
(* The state machine *)

\* The store when the session opens: empty, or holding the private token
\* key (decrypt and verify only) that an earlier session of the logged in
\* user left on the token.
StoredObjects ==
    { <<>>,
      (1 :> [class |-> "SKS_CKO_SECRET_KEY", key_type |-> "SKS_CKK_AES",
             usage |-> {"SKS_CKA_DECRYPT", "SKS_CKA_VERIFY"},
             value_size |-> 16, private |-> TRUE, token |-> TRUE,
             key_handle |-> TEE_HANDLE_NULL]) }

Init ==
    /\ processing = [s \in Sessions |-> PKCS11_SESSION_READY]
    /\ proc_id = [s \in Sessions |-> SKS_UNDEFINED_ID]
    /\ tee_op_handle = [s \in Sessions |-> TEE_HANDLE_NULL]
    /\ ae_ctx = [s \in Sessions |-> FALSE]
    /\ user_session \in BOOLEAN
    /\ objects \in StoredObjects
    /\ tee_ops = {}
    /\ tee_objs = {}
    /\ panicked = FALSE
    /\ last = [op |-> "none", flag |-> FALSE, sh |-> 2, pre |-> NoSession,
               rv |-> SKS_OK, step |-> "done", mech |-> SKS_UNDEFINED_ID,
               psize |-> 0, handle |-> 0, out_size |-> NoBuf, need |-> NoBuf,
               in |-> NoBuf, out |-> NoBuf, fed |-> 0, allocated |-> 0,
               freed |-> 0, null_session |-> FALSE,
               nobj |-> Cardinality(DOMAIN objects),
               vlen_size |-> NoBuf, vlen |-> 0, written |-> 0, key |-> 0,
               key_alloc |-> "none", released |-> <<>>, op_frees |-> 0,
               releases |-> 0, bufs |-> NoBufs]

Next ==
    \/ \E sh \in SessionHandles : entry_import_object(sh)
    \/ \E sh \in SessionHandles : entry_generate_object(sh)
    \/ \E sh \in SessionHandles, decrypt \in BOOLEAN :
          entry_cipher_init(sh, decrypt)
    \/ \E sh \in SessionHandles, decrypt \in BOOLEAN :
          entry_cipher_update(sh, decrypt)
    \/ \E sh \in SessionHandles, decrypt \in BOOLEAN :
          entry_cipher_final(sh, decrypt)
    \/ \E sh \in SessionHandles, sign \in BOOLEAN :
          entry_signverify_init(sh, sign)
    \/ \E sh \in SessionHandles, sign \in BOOLEAN :
          entry_signverify_update(sh, sign)
    \/ \E sh \in SessionHandles, sign \in BOOLEAN :
          entry_signverify_final(sh, sign)

Spec == Init /\ [][Next]_vars

\* A final call on the session, made in the active state of its family,
\* that the provider does not answer with a short buffer.
FinalEnds ==
    \E sh \in Sessions, flag \in BOOLEAN :
        /\ \/ entry_cipher_final(sh, flag)
           \/ entry_signverify_final(sh, flag)
        /\ last'.step \in {"provider", "params"}
        /\ last'.rv # SKS_SHORT_BUFFER

\* The caller of an active session keeps calling final, and the provider
\* does not answer SHORT_BUFFER for ever.
SpecLive == Spec /\ WF_vars(FinalEnds)

----------------------------------------------------------------------------
(* tee_operarion_params on its own: every mechanism, key type and function *)
(* on a session that passed the READY check of an init.                    *)

\* sizes in bytes of the VALUE attribute of the parent key
ValueSizes == {16, 32}

\* a parent key of the given type with every usage
ParamsKey(key_type, value_size) ==
    [class |-> "SKS_CKO_SECRET_KEY", key_type |-> key_type, usage |-> AllUsage,
     value_size |-> value_size, private |-> FALSE, token |-> FALSE,
     key_handle |-> TEE_HANDLE_NULL]

\* the provisional state an init sets before it calls tee_operarion_params
FunctionState(function) ==
    CASE function = "SKS_FUNCTION_ENCRYPT" -> CipherState(FALSE)
      [] function = "SKS_FUNCTION_DECRYPT" -> CipherState(TRUE)
      [] function = "SKS_FUNCTION_SIGN" -> SignVerifyState(TRUE)
      [] function = "SKS_FUNCTION_VERIFY" -> SignVerifyState(FALSE)

\* the description of a call of tee_operarion_params
ParamsCall(mech, obj, function) ==
    [op |-> "operarion_params", sh |-> 1, pre |-> PreOf(1), rv |-> SKS_OK,
     step |-> "done", mech |-> mech, function |-> function,
     key_type |-> obj.key_type, value_size |-> obj.value_size,
     sel |-> Refused(SKS_OK), released |-> <<>>, op_frees |-> 0,
     releases |-> 0]

ParamsInit ==
    /\ processing = [s \in Sessions |-> PKCS11_SESSION_READY]
    /\ proc_id = [s \in Sessions |-> SKS_UNDEFINED_ID]
    /\ tee_op_handle = [s \in Sessions |-> TEE_HANDLE_NULL]
    /\ ae_ctx = [s \in Sessions |-> FALSE]
    /\ user_session = TRUE
    /\ objects \in { (1 :> ParamsKey(kt, vs)) :
                        kt \in KeyTypes, vs \in ValueSizes }
    /\ tee_ops = {}
    /\ tee_objs = {}
    /\ panicked = FALSE
    /\ last = [op |-> "none", sh |-> 1, pre |-> NoSession, rv |-> SKS_OK,
               step |-> "done", mech |-> SKS_UNDEFINED_ID,
               function |-> "none", key_type |-> SKS_UNDEFINED_ID,
               value_size |-> 0, sel |-> Refused(SKS_OK), released |-> <<>>,
               op_frees |-> 0, releases |-> 0]

\* an init that passed the READY check sets the provisional state and calls
\* tee_operarion_params
params_apply(s) ==
    /\ ~panicked
    /\ ~check_processing_state(Cur, s, PKCS11_SESSION_READY)
    /\ \E mech \in AllMechs, function \in Functions :
        LET S1 == set_processing_state(Cur, s, FunctionState(function)) IN
        \E p \in tee_operarion_params(S1, s, mech, objects[1], function) :
            Commit(p.S, [ParamsCall(mech, objects[1], function)
                            EXCEPT !.rv = p.rv, !.step = p.step,
                                   !.sel = p.sel])

\* the init ends the operation again
params_release(s) ==
    /\ ~panicked
    /\ check_processing_state(Cur, s, PKCS11_SESSION_READY)
    /\ Commit(release_active_processing(Cur, s),
              [last EXCEPT !.op = "release", !.pre = PreOf(s)])

ParamsNext ==
    \/ \E s \in Sessions : params_apply(s)
    \/ \E s \in Sessions : params_release(s)

SpecParams == ParamsInit /\ [][ParamsNext]_vars

----------------------------------------------------------------------------
(* Properties *)

InitOps == {"cipher_init", "signverify_init"}
UpdateOps == {"cipher_update", "signverify_update"}
FinalOps == {"cipher_final", "signverify_final"}

\* the call named a session and its control parameter was well formed
OnSession == last.op # "none" /\ last.sh \in Sessions /\ last.step # "ctrl"

\* the session fields after the call
Post == [state |-> processing[last.sh], proc_id |-> proc_id[last.sh],
         tee_op_handle |-> tee_op_handle[last.sh]]

\* the active state an update or final call of this kind belongs to
Matching ==
    CASE last.op \in {"cipher_update", "cipher_final"} ->
            IF last.flag THEN "DECRYPTING" ELSE "ENCRYPTING"
      [] last.op \in {"signverify_update", "signverify_final"} ->
            IF last.flag THEN "SIGNING" ELSE "VERIFYING"
      [] OTHER -> "NONE"

\* the session is READY and holds nothing of an operation
Released ==
    /\ processing[last.sh] = "READY"
    /\ proc_id[last.sh] = "SKS_UNDEFINED_ID"
    /\ tee_op_handle[last.sh] = "TEE_HANDLE_NULL"
    /\ last.pre.tee_op_handle \notin tee_ops

\* C1 (as claimed): an init call on a session that is not READY returns
\* OPERATION_ACTIVE and leaves state, proc_id and operation handle as they
\* were.
C1_InitOnActiveSession ==
    (OnSession /\ last.op \in InitOps /\ last.pre.state # "READY")
        => (last.rv = "SKS_CKR_OPERATION_ACTIVE" /\ Post = last.pre)

\* C2: an update or final call on a session whose state is not the state of
\* the call returns OPERATION_NOT_INITIALIZED and leaves state, proc_id and
\* operation handle as they were.
C2_NotInitialized ==
    (OnSession /\ last.op \in UpdateOps \cup FinalOps
               /\ last.pre.state # Matching)
        => (last.rv = "SKS_CKR_OPERATION_NOT_INITIALIZED" /\ Post = last.pre)

C2_Witness ==
    /\ last.op = "signverify_update" /\ last.flag
    /\ last.pre.state = "ENCRYPTING"
    /\ last.rv = "SKS_CKR_OPERATION_NOT_INITIALIZED"
    /\ processing[1] = "ENCRYPTING"

ShortBufferOps == {"cipher_update", "cipher_final", "signverify_final"}

C3_State ==
    (OnSession /\ last.op \in ShortBufferOps /\ last.rv = "SKS_SHORT_BUFFER")
        => /\ last.pre.state = Matching
           /\ Post = last.pre
           /\ tee_op_handle[last.sh] \in tee_ops
           /\ last.need # NoBuf
           /\ last.out_size = last.need

C3_Retry ==
    (/\ OnSession /\ last.op \in ShortBufferOps
     /\ last.rv = "SKS_SHORT_BUFFER"
     /\ last'.op = last.op /\ last'.flag = last.flag /\ last'.sh = last.sh)
        => last'.rv # "SKS_CKR_OPERATION_NOT_INITIALIZED"

\* C3: a cipher update, cipher final or sign/verify final that returns
\* SHORT_BUFFER leaves the session in the same active state with the same
\* proc_id and operation handle, reports the needed size in the out size,
\* and the next call of the same kind is not answered
\* OPERATION_NOT_INITIALIZED.
C3_ShortBufferKeepsOperation == []C3_State /\ [][C3_Retry]_vars

C3_Witness ==
    /\ last.op = "cipher_final" /\ last.rv = "SKS_SHORT_BUFFER"
    /\ last.out = 0 /\ last.out_size = 16
    /\ processing[1] = "ENCRYPTING" /\ proc_id[1] = "SKS_CKM_AES_GCM"

C4_State ==
    (OnSession /\ last.op \in FinalOps /\ last.pre.state = Matching
               /\ last.rv # "SKS_SHORT_BUFFER")
        => Released

C4_Next ==
    (/\ OnSession /\ last.op \in FinalOps /\ last.pre.state = Matching
     /\ last.rv # "SKS_SHORT_BUFFER"
     /\ last'.op \in UpdateOps \cup FinalOps
     /\ last'.sh = last.sh /\ last'.step # "ctrl")
        => last'.rv = "SKS_CKR_OPERATION_NOT_INITIALIZED"

\* C4: a final call in the matching active state that returns anything but
\* SHORT_BUFFER leaves the session READY, the operation handle released and
\* proc_id undefined, and an update or final that follows returns
\* OPERATION_NOT_INITIALIZED.
C4_FinalReleases == []C4_State /\ [][C4_Next]_vars

C4_Witness ==
    /\ last.op = "signverify_final" /\ ~last.flag
    /\ last.pre.state = "VERIFYING"
    /\ last.rv = "SKS_CKR_SIGNATURE_INVALID"
    /\ processing[1] = "READY"

\* C5: an update call in the matching active state leaves state, proc_id and
\* operation handle as they were when it returns OK, and leaves the session
\* READY with the operation handle freed when it returns an error other
\* than SHORT_BUFFER.
C5_UpdateKeepsOrReleases ==
    (OnSession /\ last.op \in UpdateOps /\ last.pre.state = Matching)
        => /\ last.rv = "SKS_OK" =>
                (Post = last.pre /\ tee_op_handle[last.sh] \in tee_ops)
           /\ last.rv \notin {"SKS_OK", "SKS_SHORT_BUFFER"} => Released

C5_Witness ==
    /\ last.op = "cipher_update" /\ last.pre.state = "DECRYPTING"
    /\ last.pre.proc_id = "SKS_CKM_AES_GCM"
    /\ last.rv = "SKS_MEMORY" /\ processing[1] = "READY"

\* C6 (as claimed): a call that returns BAD_PARAM leaves state, proc_id and
\* operation handle of the session as they were.
C6_BadParamNoChange ==
    (last.op # "none" /\ last.sh \in Sessions /\ last.rv = "SKS_BAD_PARAM")
        => Post = last.pre

\* C6 (amended): a call that returns BAD_PARAM leaves state, proc_id and
\* operation handle as they were, unless it is an update or final made in
\* the matching active state with a well formed control parameter: that
\* call ends the operation and leaves the session READY, the operation
\* handle released.
C6_BadParamAmended ==
    (last.op # "none" /\ last.sh \in Sessions /\ last.rv = "SKS_BAD_PARAM")
        => IF last.op \in UpdateOps \cup FinalOps /\ last.step # "ctrl"
              /\ last.pre.state = Matching
           THEN Released
           ELSE Post = last.pre

C6_Witness ==
    /\ last.op = "signverify_final" /\ last.flag
    /\ last.pre.state = "SIGNING" /\ last.out = NoBuf
    /\ last.rv = "SKS_BAD_PARAM" /\ processing[1] = "READY"

\* C7 (as claimed): a call whose session handle names no session returns
\* SESSION_HANDLE_INVALID, passes no NULL session to the release of the
\* processing, and frees the buffers it allocated.
C7_SessionHandleInvalid ==
    (last.op # "none" /\ last.sh \notin Sessions /\ last.step # "ctrl")
        => /\ last.rv = "SKS_CKR_SESSION_HANDLE_INVALID"
           /\ ~last.null_session
           /\ last.freed = last.allocated

InitRefusalSteps == {"key", "policy", "token", "select", "alloc_op", "class",
                     "load_key", "set_key", "mechanism"}

\* C8: an init call on a READY session that is refused after the state was
\* switched leaves the session READY, without operation handle and with
\* proc_id undefined, and no provider operation stays allocated.
C8_RefusedInitIsReady ==
    (OnSession /\ last.op \in InitOps /\ last.pre.state = "READY"
               /\ last.step \in InitRefusalSteps
               /\ last.rv \notin {"SKS_OK", "PANIC"})
        => (Released /\ tee_ops = {})

C8_Witness ==
    /\ last.op = "cipher_init" /\ ~last.flag
    /\ last.step = "policy"
    /\ last.rv = "SKS_CKR_KEY_FUNCTION_NOT_PERMITTED"
    /\ processing[1] = "READY"

\* C9: a successful init leaves the session in the state of the call
\* (ENCRYPTING, DECRYPTING, SIGNING or VERIFYING), proc_id the mechanism of
\* the request and an operation handle held; no other call moves a session
\* out of READY.
C9_InitEntersActiveState ==
    /\ (OnSession /\ last.op \in InitOps /\ last.rv = "SKS_OK")
          => /\ last.pre.state = "READY"
             /\ processing[last.sh] =
                   (IF last.op = "cipher_init"
                    THEN (IF last.flag THEN "DECRYPTING" ELSE "ENCRYPTING")
                    ELSE (IF last.flag THEN "SIGNING" ELSE "VERIFYING"))
             /\ proc_id[last.sh] = last.mech
             /\ last.mech # "SKS_UNDEFINED_ID"
             /\ tee_op_handle[last.sh] # "TEE_HANDLE_NULL"
             /\ tee_op_handle[last.sh] \in tee_ops
    /\ (OnSession /\ ~panicked /\ last.pre.state = "READY"
                  /\ processing[last.sh] # "READY")
          => (last.op \in InitOps /\ last.rv = "SKS_OK")

C9_Witness ==
    /\ last.op = "cipher_init" /\ last.flag /\ last.rv = "SKS_OK"
    /\ processing[1] = "DECRYPTING" /\ proc_id[1] = "SKS_CKM_AES_CBC"

\* C10 (as claimed): a cipher init with AES_ECB and a non-empty parameter,
\* or with AES_CBC, AES_CBC_PAD or AES_CTS and a parameter that is not 16
\* bytes, on a key the policy gate accepts and with the provider calls
\* succeeding, returns MECHANISM_PARAM_INVALID and leaves the session READY
\* with the operation handle of this init freed.
C10_ParamSizeChecked ==
    (/\ OnSession /\ last.op = "cipher_init" /\ last.pre.state = "READY"
     /\ last.step \in {"select", "mechanism", "done"}
     /\ \/ last.mech = "SKS_CKM_AES_ECB" /\ last.psize # 0
        \/ last.mech \in {"SKS_CKM_AES_CBC", "SKS_CKM_AES_CBC_PAD",
                          "SKS_CKM_AES_CTS"} /\ last.psize # 16)
        => (last.rv = "SKS_CKR_MECHANISM_PARAM_INVALID"
            /\ Released /\ tee_ops = {})

----------------------------------------------------------------------------
(* The mechanism table *)

\* the provider algorithm the mechanism table lists for a cipher mechanism
CipherTableAlgo(mech) ==
    CASE mech = "SKS_CKM_AES_ECB" -> "TEE_ALG_AES_ECB_NOPAD"
      [] mech \in {"SKS_CKM_AES_CBC", "SKS_CKM_AES_CBC_PAD"} ->
            "TEE_ALG_AES_CBC_NOPAD"
      [] mech = "SKS_CKM_AES_CTS" -> "TEE_ALG_AES_CTS"
      [] mech = "SKS_CKM_AES_CTR" -> "TEE_ALG_AES_CTR"
      [] mech = "SKS_CKM_AES_CCM" -> "TEE_ALG_AES_CCM"
      [] mech = "SKS_CKM_AES_GCM" -> "TEE_ALG_AES_GCM"

\* C11 (as claimed): for an AES key and every cipher mechanism of the table,
\* CBC_PAD included, tee_operarion_params selects the algorithm of the table,
\* the mode of the direction and a key size of 8 times the size of VALUE.
C11_CipherTable ==
    (/\ last.op = "operarion_params"
     /\ last.key_type = "SKS_CKK_AES"
     /\ last.function \in {"SKS_FUNCTION_ENCRYPT", "SKS_FUNCTION_DECRYPT"}
     /\ last.mech \in {"SKS_CKM_AES_ECB", "SKS_CKM_AES_CBC",
                       "SKS_CKM_AES_CBC_PAD", "SKS_CKM_AES_CTS",
                       "SKS_CKM_AES_CTR", "SKS_CKM_AES_CCM",
                       "SKS_CKM_AES_GCM"})
    => /\ last.step = "alloc_op"
       /\ last.sel.rv = "SKS_OK"
       /\ last.sel.algo = CipherTableAlgo(last.mech)
       /\ last.sel.mode = (IF last.function = "SKS_FUNCTION_DECRYPT"
                           THEN "TEE_MODE_DECRYPT" ELSE "TEE_MODE_ENCRYPT")
       /\ last.sel.size = 8 * last.value_size

\* the (mechanism, key type) pairs the table accepts for sign and verify
MacTableAccepts(mech, key_type) ==
    \/ /\ mech \in {"SKS_CKM_AES_CMAC", "SKS_CKM_AES_CMAC_GENERAL",
                    "SKS_CKM_AES_XCBC_MAC"}
       /\ key_type = "SKS_CKK_AES"
    \/ /\ mech \in {"SKS_CKM_MD5_HMAC", "SKS_CKM_SHA_1_HMAC",
                    "SKS_CKM_SHA224_HMAC", "SKS_CKM_SHA256_HMAC",
                    "SKS_CKM_SHA384_HMAC", "SKS_CKM_SHA512_HMAC"}
       /\ \/ key_type = "SKS_CKK_GENERIC_SECRET"
          \/ <<mech, key_type>> \in
               { <<"SKS_CKM_MD5_HMAC", "SKS_CKK_MD5_HMAC">>,
                 <<"SKS_CKM_SHA_1_HMAC", "SKS_CKK_SHA_1_HMAC">>,
                 <<"SKS_CKM_SHA224_HMAC", "SKS_CKK_SHA224_HMAC">>,
                 <<"SKS_CKM_SHA256_HMAC", "SKS_CKK_SHA256_HMAC">>,
                 <<"SKS_CKM_SHA384_HMAC", "SKS_CKK_SHA384_HMAC">>,
                 <<"SKS_CKM_SHA512_HMAC", "SKS_CKK_SHA512_HMAC">> }

\* C12: for the functions sign and verify, tee_operarion_params goes on to
\* allocate the provider operation exactly for the (mechanism, key type)
\* pairs of the table; every other pair is refused with a code other than OK
\* and no provider operation exists on return.
C12_MacAllocation ==
    (/\ last.op = "operarion_params"
     /\ last.function \in {"SKS_FUNCTION_SIGN", "SKS_FUNCTION_VERIFY"})
    => IF MacTableAccepts(last.mech, last.key_type)
       THEN /\ last.step = "alloc_op"
            /\ last.sel.rv = "SKS_OK"
            /\ last.sel.mode = "TEE_MODE_MAC"
            /\ (last.rv = "SKS_OK") = (tee_op_handle[last.sh] \in tee_ops)
       ELSE /\ last.step = "select"
            /\ last.rv \notin {"SKS_OK", "PANIC"}
            /\ tee_ops = {}
            /\ tee_op_handle[last.sh] = "TEE_HANDLE_NULL"

\* an HMAC mechanism was accepted with the HMAC key type of its own, and an
\* operation allocated
C12_Witness ==
    /\ last.op = "operarion_params"
    /\ last.function = "SKS_FUNCTION_VERIFY"
    /\ last.mech = "SKS_CKM_SHA256_HMAC"
    /\ last.key_type = "SKS_CKK_SHA256_HMAC"
    /\ last.rv = "SKS_OK"
    /\ tee_op_handle[last.sh] \in tee_ops

----------------------------------------------------------------------------
(* Import and generate *)

CreateOps == {"import", "generate"}

\* the call registered no object and wrote no handle
NothingCreated ==
    /\ Cardinality(DOMAIN objects) = last.nobj
    /\ last.handle = 0

\* C13 (as claimed): an import whose sanitized attributes carry no VALUE
\* fails with TEMPLATE_INCONSISTENT, registers no object and writes no
\* handle.
C13_ImportWithoutValue ==
    (last.op = "import" /\ last.step = "value")
    => (last.rv = "SKS_CKR_TEMPLATE_INCONSISTENT" /\ NothingCreated)

\* C14: a generate call that reached the generation of the value succeeds
\* only for AES_KEY_GEN or GENERIC_SECRET_KEY_GEN with a VALUE_LEN of 4
\* bytes, and then the registered object carries a VALUE of the size stored
\* in VALUE_LEN; with VALUE_LEN absent or of another size it fails with
\* ATTRIBUTE_VALUE_INVALID, with another mechanism with MECHANISM_INVALID;
\* a generate call that fails registers no object and writes no handle.
C14_GenerateValueLen ==
    (last.op = "generate") =>
       /\ (last.rv = "SKS_OK") =>
             /\ last.mech \in {"SKS_CKM_AES_KEY_GEN",
                               "SKS_CKM_GENERIC_SECRET_KEY_GEN"}
             /\ last.vlen_size = 4
             /\ Cardinality(DOMAIN objects) = last.nobj + 1
             /\ last.handle \in DOMAIN objects
             /\ objects[last.handle].value_size = last.vlen
             /\ last.out_size = 4
       /\ (/\ last.step = "value"
           /\ last.mech \in {"SKS_CKM_AES_KEY_GEN",
                             "SKS_CKM_GENERIC_SECRET_KEY_GEN"}
           /\ last.vlen_size # 4)
          => last.rv = "SKS_CKR_ATTRIBUTE_VALUE_INVALID"
       /\ (/\ last.step = "value"
           /\ last.mech \notin {"SKS_CKM_AES_KEY_GEN",
                                "SKS_CKM_GENERIC_SECRET_KEY_GEN"})
          => last.rv = "SKS_CKR_MECHANISM_INVALID"
       /\ (last.rv # "SKS_OK") => NothingCreated

\* a generic secret of 32 bytes was generated
C14_Witness ==
    /\ last.op = "generate"
    /\ last.rv = "SKS_OK"
    /\ last.mech = "SKS_CKM_GENERIC_SECRET_KEY_GEN"
    /\ last.vlen = 32
    /\ last.handle \in DOMAIN objects
    /\ objects[last.handle].value_size = 32

\* the session fields and the provider operations stay as they are
C15_Frame ==
    (last'.op \in CreateOps) =>
        UNCHANGED <<processing, proc_id, tee_op_handle, ae_ctx, tee_ops>>

\* an import or generate on a session that is not READY is refused with
\* OPERATION_ACTIVE and creates nothing
C15_State ==
    (last.op \in CreateOps /\ last.sh \in {1} /\ last.step # "ctrl"
        /\ last.pre.state # "READY")
    => /\ last.rv = "SKS_CKR_OPERATION_ACTIVE"
       /\ NothingCreated
       /\ processing[last.sh] = last.pre.state
       /\ proc_id[last.sh] = last.pre.proc_id
       /\ tee_op_handle[last.sh] = last.pre.tee_op_handle
       /\ last.pre.tee_op_handle \in tee_ops

\* C15: import and generate never change the processing state, the
\* mechanism or the provider operation of the session, whatever they return;
\* on a session that is not READY they return OPERATION_ACTIVE, register no
\* object and leave the operation in place.
C15_CreateIsOneShot == []C15_State /\ [][C15_Frame]_vars

\* a generate call was refused on a session that is encrypting
C15_Witness ==
    /\ last.op = "generate"
    /\ last.pre.state = "ENCRYPTING"
    /\ last.rv = "SKS_CKR_OPERATION_ACTIVE"
    /\ processing[last.sh] = "ENCRYPTING"
    /\ tee_op_handle[last.sh] \in tee_ops

----------------------------------------------------------------------------
(* Cipher update and final: what reaches the caller and the provider *)

\* C17: a cipher update on a session that is DECRYPTING with AES_CCM or
\* AES_GCM writes nothing into the out buffer of the caller, whatever the
\* input, and when it returns OK or SHORT_BUFFER the out size it reports is
\* 0.  What the caller sees of the output is the same constant in every run,
\* so two runs that differ in the ciphertext alone see the same output.
C17_AeDecryptUpdateSilent ==
    (/\ last.op = "cipher_update"
     /\ last.flag
     /\ last.sh \in {1}
     /\ last.pre.state = "DECRYPTING"
     /\ last.pre.proc_id \in {"SKS_CKM_AES_CCM", "SKS_CKM_AES_GCM"}
     /\ last.step = "provider")
    => /\ last.written = 0
       /\ last.need = 0 - 1
       /\ (last.rv \in {"SKS_OK", "SKS_SHORT_BUFFER"} /\ last.out # 0 - 1)
             => last.out_size = 0

\* a GCM decrypt update with input and an out buffer of 16 bytes returned OK
C17_Witness ==
    /\ last.op = "cipher_update"
    /\ last.flag
    /\ last.pre.state = "DECRYPTING"
    /\ last.pre.proc_id = "SKS_CKM_AES_GCM"
    /\ last.in = 16
    /\ last.out = 16
    /\ last.rv = "SKS_OK"
    /\ last.out_size = 0
    /\ processing[last.sh] = "DECRYPTING"

\* C18 (as claimed): a cipher final in the matching active state that
\* carries input is rejected and hands no input bytes to the provider,
\* whatever the mechanism.
C18_FinalNeedsEmptyInput ==
    (/\ last.op = "cipher_final"
     /\ last.sh \in {1}
     /\ last.step = "provider"
     /\ last.in # 0 - 1
     /\ last.in > 0)
    => (last.fed = 0 /\ last.rv \notin {"SKS_OK", "SKS_SHORT_BUFFER"})

----------------------------------------------------------------------------
(* The transient key of an object *)

\* a transient object is allocated only for a key that has none
C19_Lazy ==
    (last'.op \in {"cipher_init", "signverify_init"}
        /\ last'.key_alloc # "none")
    => /\ last'.key \in DOMAIN objects
       /\ objects[last'.key].key_handle = "TEE_HANDLE_NULL"

\* a loaded key stays loaded, with the same handle
C19_Keep ==
    \A k \in DOMAIN objects :
        (objects[k].key_handle # "TEE_HANDLE_NULL")
        => /\ k \in DOMAIN objects'
           /\ objects'[k].key_handle = objects[k].key_handle
           /\ k \in tee_objs'

\* the provider holds one transient object for each loaded key and no other
C19_OnePerKey ==
    /\ tee_objs \subseteq DOMAIN objects
    /\ \A k \in DOMAIN objects :
          (objects[k].key_handle # "TEE_HANDLE_NULL") = (k \in tee_objs)

\* C19: load_key allocates a transient object only when the object has no
\* key handle; once the key is loaded no call (final, failed update, failed
\* init) frees or changes the key handle, and a later init on the same
\* object uses it without a second allocation.
C19_TransientKeyKept == []C19_OnePerKey /\ [][C19_Lazy /\ C19_Keep]_vars

\* an init succeeded on a key that was loaded before, allocating nothing
C19_Witness ==
    /\ last.op \in {"cipher_init", "signverify_init"}
    /\ last.rv = "SKS_OK"
    /\ last.key \in DOMAIN objects
    /\ last.key_alloc = "none"
    /\ objects[last.key].key_handle # "TEE_HANDLE_NULL"
    /\ last.key \in tee_objs

\* C20 (as claimed): when the provider fails to allocate the transient
\* object, load_key returns a code other than OK, so the init fails at
\* load_key, binds no key and leaves the session READY.
C20_LoadKeyAllocFailure ==
    (last.op \in {"cipher_init", "signverify_init"}
        /\ last.key_alloc = "failed")
    => /\ last.step = "load_key"
       /\ last.rv \notin {"SKS_OK", "PANIC"}
       /\ processing[last.sh] = "READY"
       /\ tee_op_handle[last.sh] = "TEE_HANDLE_NULL"

----------------------------------------------------------------------------
(* The session between two calls *)

ActiveStates == {"ENCRYPTING", "DECRYPTING", "SIGNING", "VERIFYING"}

\* the mechanism releases a release of the processing runs for a mechanism
MechanismRelease(mech) ==
    CASE mech = "SKS_CKM_AES_CTR" -> <<"ctr">>
      [] mech = "SKS_CKM_AES_CCM" -> <<"ccm">>
      [] mech = "SKS_CKM_AES_GCM" -> <<"gcm">>
      [] OTHER -> <<>>

\* C21: a session that is READY holds no operation handle and has proc_id
\* undefined; a call that brings a session from an active state back to
\* READY ran release_active_processing once, which ran the CTR, CCM or GCM
\* release of the mechanism that was active and no other, left proc_id
\* undefined and freed the operation handle once if one was held; an init
\* that is refused after it switched the state of a READY session ran it
\* once as well, with no mechanism release and at most one operation freed;
\* a call that leaves a session in its active state ran no release.
C21_ReadyHoldsNothing ==
    /\ \A s \in {1} :
          processing[s] = "READY"
          => (tee_op_handle[s] = "TEE_HANDLE_NULL"
              /\ proc_id[s] = "SKS_UNDEFINED_ID"
              /\ ~ae_ctx[s])
    /\ (OnSession /\ last.pre.state \in ActiveStates
                  /\ processing[last.sh] = "READY")
       => /\ last.releases = 1
          /\ last.released = MechanismRelease(last.pre.proc_id)
          /\ last.pre.tee_op_handle \notin tee_ops
          /\ last.op_frees =
                (IF last.pre.tee_op_handle = "TEE_HANDLE_NULL" THEN 0 ELSE 1)
    /\ (OnSession /\ last.op \in InitOps /\ last.pre.state = "READY"
                  /\ last.step \in InitRefusalSteps
                  /\ last.rv \notin {"SKS_OK", "PANIC"})
       => /\ last.releases = 1
          /\ last.released = <<>>
          /\ last.op_frees <= 1
          /\ tee_ops = {}
    /\ (OnSession /\ last.pre.state \in ActiveStates
                  /\ processing[last.sh] = last.pre.state)
       => (last.releases = 0 /\ last.op_frees = 0)

\* a final call ended a GCM decryption: the GCM release ran and the
\* operation was freed once
C21_Witness ==
    /\ last.op = "cipher_final"
    /\ last.pre.state = "DECRYPTING"
    /\ last.pre.proc_id = "SKS_CKM_AES_GCM"
    /\ processing[last.sh] = "READY"
    /\ last.released = <<"gcm">>
    /\ last.op_frees = 1

\* C22: the provider holds at most one operation, the one the session handle
\* names, and no call reaches the fatal check of tee_operarion_params on an
\* operation handle that is already set.
C22_OneOperation ==
    /\ Cardinality(tee_ops) <= 1
    /\ \A h \in tee_ops : \E s \in {1} : tee_op_handle[s] = h
    /\ last.step # "op_exists"

\* a sign init got an operation on a key an earlier operation had loaded
C22_Witness ==
    /\ last.op = "signverify_init"
    /\ last.flag
    /\ last.rv = "SKS_OK"
    /\ last.step = "done"
    /\ last.key_alloc = "none"
    /\ last.key \in tee_objs
    /\ tee_ops = {tee_op_handle[last.sh]}

----------------------------------------------------------------------------
(* The heap buffers of the entry points *)

\* C23: when an import, a generate, a cipher init or a sign/verify init
\* returns, the template and the mechanism parameter it allocated have each
\* been freed once: none is still allocated and none was freed twice.
C23_BuffersFreedOnce ==
    (last.op \in CreateOps \cup InitOps /\ last.rv # "PANIC")
    => /\ last.bufs.template.allocs <= 1
       /\ last.bufs.template.frees = last.bufs.template.allocs
       /\ last.bufs.proc_params.allocs <= 1
       /\ last.bufs.proc_params.frees = last.bufs.proc_params.allocs
       /\ (last.op \in InitOps /\ last.step # "ctrl")
             => last.bufs.proc_params.allocs = 1
       /\ (last.op = "import" /\ last.step # "ctrl")
             => last.bufs.template.allocs = 1
       /\ (last.op = "generate" /\ last.step # "ctrl")
             => last.bufs.proc_params.allocs = 1

\* a generate registered an object and freed its template and its mechanism
\* parameter
C23_Witness ==
    /\ last.op = "generate"
    /\ last.rv = "SKS_OK"
    /\ last.handle \in DOMAIN objects
    /\ last.bufs.template.frees = 1
    /\ last.bufs.proc_params.frees = 1

\* the call registered an object
Registered == Cardinality(DOMAIN objects) = last.nobj + 1

\* C24: an import or generate that built the attributes frees them once
\* when create_object was not reached or failed, and does not free them
\* when create_object succeeded and the store owns them; the attributes are
\* never freed twice.
C24_BlobOwnership ==
    (last.op \in CreateOps)
    => /\ last.bufs.head.frees <= last.bufs.head.allocs
       /\ last.bufs.head.allocs <= 1
       /\ Registered = (last.step = "done" /\ last.rv = "SKS_OK")
       /\ Registered
             => /\ last.handle \in DOMAIN objects
                /\ last.bufs.head.allocs = 1
                /\ last.bufs.head.frees = 0
       /\ (~Registered /\ last.bufs.head.allocs = 1)
             => last.bufs.head.frees = 1

\* an import handed its attributes to the store and did not free them
C24_Witness ==
    /\ last.op = "import"
    /\ last.rv = "SKS_OK"
    /\ Registered
    /\ last.bufs.head.allocs = 1
    /\ last.bufs.head.frees = 0
    /\ last.bufs.template.frees = 1

\* C25 (as claimed): the buffer of the generated key value is overwritten
\* before it is freed, when the generation succeeds and when appending
\* VALUE fails: it does not hold the bytes of the key when it is freed.
C25_ValueScrubbed ==
    (last.op = "generate" /\ last.bufs.value.frees > 0)
    => last.bufs.value.freed_with # "key"

----------------------------------------------------------------------------
(* The mechanism of an active session and the fatal branches *)

\* C27: between two calls, a session that is ENCRYPTING or DECRYPTING has a
\* proc_id among AES_ECB, AES_CBC, AES_CTS, AES_CTR, AES_CCM and AES_GCM, a
\* session that is SIGNING or VERIFYING has a proc_id among the AES MAC and
\* HMAC mechanisms, both with an operation handle that is set and live; no
\* sign/verify update or final returns MECHANISM_INVALID.
C27_MechanismOfFamily ==
    /\ ~panicked =>
          \A s \in {1} :
            /\ processing[s] \in {"ENCRYPTING", "DECRYPTING"}
                  => /\ proc_id[s] \in
                          {"SKS_CKM_AES_ECB", "SKS_CKM_AES_CBC",
                           "SKS_CKM_AES_CTS", "SKS_CKM_AES_CTR",
                           "SKS_CKM_AES_CCM", "SKS_CKM_AES_GCM"}
                     /\ tee_op_handle[s] # "TEE_HANDLE_NULL"
                     /\ tee_op_handle[s] \in tee_ops
            /\ processing[s] \in {"SIGNING", "VERIFYING"}
                  => /\ proc_id[s] \in
                          {"SKS_CKM_AES_CMAC", "SKS_CKM_AES_CMAC_GENERAL",
                           "SKS_CKM_AES_XCBC_MAC", "SKS_CKM_MD5_HMAC",
                           "SKS_CKM_SHA_1_HMAC", "SKS_CKM_SHA224_HMAC",
                           "SKS_CKM_SHA256_HMAC", "SKS_CKM_SHA384_HMAC",
                           "SKS_CKM_SHA512_HMAC"}
                     /\ tee_op_handle[s] # "TEE_HANDLE_NULL"
                     /\ tee_op_handle[s] \in tee_ops
    /\ (last.op \in {"signverify_update", "signverify_final"})
          => last.rv # "SKS_CKR_MECHANISM_INVALID"

\* an update went to the provider on a session that is verifying with HMAC
C27_Witness ==
    /\ last.op = "signverify_update"
    /\ ~last.flag
    /\ last.step = "provider"
    /\ last.rv = "SKS_OK"
    /\ processing[last.sh] = "VERIFYING"
    /\ proc_id[last.sh] = "SKS_CKM_SHA256_HMAC"

\* C28: no cipher init takes the default branch of the switch over the
\* mechanism; a cipher init on a READY session with a mechanism outside
\* AES_ECB, AES_CBC, AES_CBC_PAD, AES_CTS, AES_CTR, AES_CCM and AES_GCM
\* returns an error code, does not panic and leaves the session READY.
C28_DefaultUnreachable ==
    /\ last.step # "mechanism_default"
    /\ (/\ OnSession /\ last.op = "cipher_init"
        /\ last.pre.state = "READY"
        /\ last.mech \notin {"SKS_CKM_AES_ECB", "SKS_CKM_AES_CBC",
                              "SKS_CKM_AES_CBC_PAD", "SKS_CKM_AES_CTS",
                              "SKS_CKM_AES_CTR", "SKS_CKM_AES_CCM",
                              "SKS_CKM_AES_GCM"})
       => /\ last.rv \notin {"SKS_OK", "PANIC"}
          /\ ~panicked
          /\ last.step \in {"key", "policy", "token", "select"}
          /\ processing[last.sh] = "READY"

\* a cipher init with AES_CMAC on an AES key was refused by
\* tee_operarion_params
C28_Witness ==
    /\ last.op = "cipher_init"
    /\ last.mech = "SKS_CKM_AES_CMAC"
    /\ last.step = "select"
    /\ last.rv = "SKS_CKR_ATTRIBUTE_TYPE_INVALID"
    /\ processing[last.sh] = "READY"
    /\ ~panicked

\* C29: every object of the store carries a VALUE, an import or generate
\* registers an object only with a VALUE, and no init panics on a missing
\* VALUE in tee_operarion_params or in load_key.
C29_ValuePresent ==
    /\ \A k \in DOMAIN objects : objects[k].value_size # 0 - 1
    /\ (last.op \in CreateOps /\ Registered)
          => /\ last.handle \in DOMAIN objects
             /\ objects[last.handle].value_size > 0
    /\ (last.op \in InitOps)
          => /\ last.step # "value"
             /\ ~(last.step = "load_key" /\ last.rv = "PANIC")

\* a sign init loaded the key of a generic secret, an object that an import
\* or a generate registered
C29_Witness ==
    /\ last.op = "signverify_init"
    /\ last.rv = "SKS_OK"
    /\ last.key \in DOMAIN objects
    /\ objects[last.key].key_type = "SKS_CKK_GENERIC_SECRET"
    /\ last.key_alloc = "kept"
    /\ objects[last.key].value_size = 32

----------------------------------------------------------------------------
(* Every operation can be finished *)

\* the session has an operation under way
Active(s) == processing[s] \in ActiveStates /\ ~panicked

\* a final call in the active state of its family leaves the session READY
\* unless it returns SHORT_BUFFER
C26_FinalLeaves ==
    (OnSession /\ last.op \in FinalOps /\ last.pre.state = Matching
               /\ last.rv # "SKS_SHORT_BUFFER")
    => processing[last.sh] = "READY"

\* an active session can be left: a final call that ends it is possible
C26_NotStuck == \A s \in {1} : Active(s) => ENABLED <<FinalEnds>>_vars

\* C26 (as claimed): a final call in the active state of its family returns the session
\* to READY unless it returns SHORT_BUFFER; every active state has such a
\* call; and when the caller keeps calling final and the provider does not
\* answer SHORT_BUFFER for ever, a session that is active is eventually
\* READY again.
C26_EveryOperationEnds ==
    /\ []C26_FinalLeaves
    /\ []C26_NotStuck
    /\ \A s \in {1} : Active(s) ~> (processing[s] = "READY")

====
